---- MODULE Spec2Model ----
(***************************************************************************)
(* blinkstick-python: the USB backends (backends/unix_like.py and          *)
(* backends/win32.py), with their reconnect-by-serial logic, and the       *)
(* BlinkStick facade of blinkstick.py that encodes operations into control *)
(* transfers.                                                              *)
(***************************************************************************)
EXTENDS Integers, Sequences, FiniteSets, TLC

VARIABLES
    platform,          \* "unix" (UnixLikeBackend) or "win32" (Win32Backend): sys.platform
    bus,               \* the USB bus: per device object its serial descriptor and status
    hstate,            \* "new" before the constructor ran, "ready" after it returned, "failed" if it raised
    device,            \* backend.device: a device object of the bus, or NoDevice (Python None)
    serial,            \* backend.serial: the cached serial, or None
    serial0,           \* history: the serial as cached when the constructor returned
    call,              \* history: what the last backend operation did and how it ended
    error_reporting,   \* BlinkStick.error_reporting
    inverse,           \* BlinkStick.inverse
    max_rgb_value,     \* BlinkStick.max_rgb_value
    fcall,             \* history: the last facade operation, the transfers it asked of the backend, its end
    codec,             \* history: the last _determine_report_id / set_led_data evaluation
    inverse_hist,      \* history: what set_inverse was last asked, and whether inverse mode was ever on
    info_block,        \* the stick's memory: per info block the 32 bytes it keeps (and the str they were made from)
    led_mem,           \* the stick's memory: per LED index written on channel 0 the (r, g, b) bytes received
    rows,              \* BlinkStickProMatrix.rows
    cols,              \* BlinkStickProMatrix.cols
    matrix_data,       \* BlinkStickProMatrix.matrix_data: one [g, r, b] per pixel
    matrix_max_rgb_value,  \* BlinkStickProMatrix.max_rgb_value
    pro_data,          \* BlinkStickPro.data: per channel one [g, r, b] per LED
    pro_led_count,     \* BlinkStickPro.r_led_count, g_led_count, b_led_count
    columns,           \* BlinkStickProMatrix.r_columns, g_columns, b_columns
    bstick,            \* BlinkStickPro.bstick: None, or the BlinkStick found by connect()
    mcall              \* history: the last frame buffer operation and the buffer it started from

vars == <<platform, bus, hstate, device, serial, serial0, call,
          error_reporting, inverse, max_rgb_value, fcall, codec,
          inverse_hist, info_block, led_mem, rows, cols, matrix_data, matrix_max_rgb_value,
          pro_data, pro_led_count, columns, bstick, mcall>>

backendVars == <<platform, bus, hstate, device, serial, serial0, call>>
facadeVars == <<error_reporting, inverse, max_rgb_value, fcall>>
memVars == <<info_block, led_mem>>
channelVars == <<pro_data, pro_led_count, columns, bstick>>
frameVars == <<rows, cols, matrix_data, matrix_max_rgb_value, channelVars, mcall>>

----------------------------------------------------------------------------
(* Bounds *)

NDev == 2              \* device objects the bus can enumerate

----------------------------------------------------------------------------
(* Values *)

Devs == 1..NDev
NoDevice == 0                         \* Python None as a device
None == "None"                        \* Python None as a serial or a return value
DevSerials == {"", "BS1", "BS2"}      \* serial string descriptors (index 3); "" is an empty descriptor
Platforms == {"unix", "win32"}
Results == {"resA", "resB"}           \* what a successful transport transfer returns
Fail == "fail"                        \* a transport transfer that does not go through
XferOutcomes == {Fail} \cup Results
USBError == "USBError"                \* usb.USBError, how pyusb reports a failed transfer
HIDError == "HIDError"                \* how pywinusb reports a failed report read or open
REQ_WRITE == 32                       \* 0x20
REQ_READ == 160                       \* 0x80 | 0x20
ReqTypes == {REQ_WRITE, REQ_READ}

\* `not self.serial`
Falsy(s) == s = None \/ s = ""

NoExc == [type |-> "none", msg |-> "none", serial |-> None]
BlinkStickException(m, s) == [type |-> "BlinkStickException", msg |-> m, serial |-> s]
Raw(t) == [type |-> t, msg |-> "raw", serial |-> None]
\* Variant: the message is built without the cached serial
CouldNotCommunicate_without_serial(s) == BlinkStickException("Could not communicate", None)

\* "Could not communicate with BlinkStick {0} - it may have been removed".format(self.serial)
CouldNotCommunicate(s) == BlinkStickException("Could not communicate", s)
CouldNotDetach == BlinkStickException("Could not detach kernel driver", None)
CouldNotFind == BlinkStickException("Could not find BlinkStick", None)

\* The outcome of one backend operation.
\*   outcome  "return" or "raise";  ret the returned value;  exc the raised exception
\*   dev      backend.device when the operation ends
\*   attempts transport transfers (or descriptor reads of the bound device) attempted
\*   enums    enumerations of the bus performed
\*   found    the device the enumeration matched, or NoDevice
Ended(o, r, e, d, a, n, f) ==
    [outcome |-> o, ret |-> r, exc |-> e, dev |-> d, attempts |-> a, enums |-> n, found |-> f]

----------------------------------------------------------------------------
(* UnixLikeBackend *)

\* open_device: the kernel driver is detached if active; ~openOk is an
\* active driver whose detach raises USBError
unix_open_device(dev, openOk) ==
    IF dev = NoDevice THEN CouldNotFind
    ELSE IF ~openOk THEN CouldNotDetach
    ELSE NoExc

\* find_by_serial: the first enumerated device whose serial descriptor reads
\* equal to `ser`; a device whose descriptor cannot be read is skipped
RECURSIVE unix_find_from(_, _, _)
unix_find_from(b, ser, d) ==
    IF d > NDev THEN NoDevice
    ELSE IF b[d].status = "absent" THEN unix_find_from(b, ser, d + 1)
    ELSE IF b[d].status = "unreadable" THEN unix_find_from(b, ser, d + 1)
    ELSE IF b[d].serial = ser THEN d
    ELSE unix_find_from(b, ser, d + 1)

\* Variant: the search ends at the first device whose descriptor cannot be read
unix_find_by_serial_aborts(b, ser) ==
    IF \E d \in Devs : b[d].status = "unreadable" /\ \A c \in 1..d : c = d \/ b[c].status = "absent"
                                                                  \/ b[c].serial # ser
    THEN NoDevice
    ELSE unix_find_from(b, ser, 1)

unix_find_by_serial(b, ser) == unix_find_from(b, ser, 1)

\* _refresh_device: "False" without a serial, "True" after a rebind, "None"
\* when nothing matches, "raise" when open_device raises after the rebind
unix_refresh_device(b, dev, ser, openOk) ==
    IF Falsy(ser) THEN [r |-> "False", dev |-> dev, enums |-> 0, found |-> NoDevice, exc |-> NoExc]
    ELSE LET f == unix_find_by_serial(b, ser) IN
         IF f # NoDevice
         THEN IF unix_open_device(f, openOk) # NoExc
              THEN [r |-> "raise", dev |-> f, enums |-> 1, found |-> f, exc |-> unix_open_device(f, openOk)]
              ELSE [r |-> "True", dev |-> f, enums |-> 1, found |-> f, exc |-> NoExc]
         ELSE [r |-> "None", dev |-> dev, enums |-> 1, found |-> NoDevice, exc |-> NoExc]

\* Variant: the result of the retried transfer is not returned
unix_with_reconnect_drops_result(b, dev, ser, first, retry, openOk) ==
    IF dev = NoDevice
    THEN Ended("raise", None, Raw("AttributeError"), dev, 0, 0, NoDevice)
    ELSE IF first # Fail
    THEN Ended("return", first, NoExc, dev, 1, 0, NoDevice)
    ELSE LET rf == unix_refresh_device(b, dev, ser, openOk) IN
         IF rf.r = "raise"
         THEN Ended("raise", None, rf.exc, rf.dev, 1, rf.enums, rf.found)
         ELSE IF rf.r = "True"
         THEN IF retry # Fail
              THEN Ended("return", None, NoExc, rf.dev, 2, rf.enums, rf.found)
              ELSE Ended("raise", None, Raw(USBError), rf.dev, 2, rf.enums, rf.found)
         ELSE Ended("raise", None, CouldNotCommunicate(ser), rf.dev, 1, rf.enums, rf.found)

\* Variant: a failure of the retried transfer starts a second reconnect
unix_with_reconnect_recursive(b, dev, ser, first, retry, openOk) ==
    IF dev = NoDevice
    THEN Ended("raise", None, Raw("AttributeError"), dev, 0, 0, NoDevice)
    ELSE IF first # Fail
    THEN Ended("return", first, NoExc, dev, 1, 0, NoDevice)
    ELSE LET rf == unix_refresh_device(b, dev, ser, openOk) IN
         IF rf.r = "raise"
         THEN Ended("raise", None, rf.exc, rf.dev, 1, rf.enums, rf.found)
         ELSE IF rf.r = "True"
         THEN IF retry # Fail
              THEN Ended("return", retry, NoExc, rf.dev, 2, rf.enums, rf.found)
              ELSE Ended("raise", None, Raw(USBError), rf.dev, 3, rf.enums + 1, rf.found)
         ELSE Ended("raise", None, CouldNotCommunicate(ser), rf.dev, 1, rf.enums, rf.found)

\* The try/except shared by control_transfer and _usb_get_string: `first` and
\* `retry` are what the transport does at the first and at the retried attempt
\* (Fail, raised as USBError, or the value it returns).
unix_with_reconnect(b, dev, ser, first, retry, openOk) ==
    IF dev = NoDevice
    THEN Ended("raise", None, Raw("AttributeError"), dev, 0, 0, NoDevice)
    ELSE IF first # Fail
    THEN Ended("return", first, NoExc, dev, 1, 0, NoDevice)
    ELSE LET rf == unix_refresh_device(b, dev, ser, openOk) IN
         IF rf.r = "raise"
         THEN Ended("raise", None, rf.exc, rf.dev, 1, rf.enums, rf.found)
         ELSE IF rf.r = "True"
         THEN IF retry # Fail
              THEN Ended("return", retry, NoExc, rf.dev, 2, rf.enums, rf.found)
              ELSE Ended("raise", None, Raw(USBError), rf.dev, 2, rf.enums, rf.found)
         ELSE Ended("raise", None, CouldNotCommunicate(ser), rf.dev, 1, rf.enums, rf.found)

unix_control_transfer(b, dev, ser, bmRequestType, first, retry, openOk) ==
    unix_with_reconnect(b, dev, ser, first, retry, openOk)

\* _usb_get_string(index): str(usb.util.get_string(self.device, index, 1033));
\* index 3 is the serial, 1 the manufacturer, 2 the description
StringOf(b, d, index) ==
    IF index = 3 THEN b[d].serial ELSE IF index = 1 THEN "manufacturer" ELSE "description"

unix_usb_get_string(b, dev, ser, index, firstOk, retryOk, openOk) ==
    LET first == IF firstOk THEN StringOf(b, dev, index) ELSE Fail
        rf == unix_refresh_device(b, dev, ser, openOk)
        retry == IF retryOk THEN StringOf(b, rf.dev, index) ELSE Fail
    IN unix_with_reconnect(b, dev, ser, first, retry, openOk)

----------------------------------------------------------------------------
(* Win32Backend *)

\* find_by_serial: [d for d in found_devices if d.serial_number == serial], first element
RECURSIVE win32_find_from(_, _, _)
win32_find_from(b, ser, d) ==
    IF d > NDev THEN NoDevice
    ELSE IF b[d].status = "absent" THEN win32_find_from(b, ser, d + 1)
    ELSE IF b[d].serial = ser THEN d
    ELSE win32_find_from(b, ser, d + 1)

win32_find_by_serial(b, ser) == win32_find_from(b, ser, 1)

\* _refresh_device: device.open() raises when the device cannot be opened
win32_refresh_device(b, dev, ser, openOk) ==
    IF Falsy(ser) THEN [r |-> "False", dev |-> dev, enums |-> 0, found |-> NoDevice, exc |-> NoExc]
    ELSE LET f == win32_find_by_serial(b, ser) IN
         IF f # NoDevice
         THEN IF ~openOk
              THEN [r |-> "raise", dev |-> f, enums |-> 1, found |-> f, exc |-> Raw(HIDError)]
              ELSE [r |-> "True", dev |-> f, enums |-> 1, found |-> f, exc |-> NoExc]
         ELSE [r |-> "None", dev |-> dev, enums |-> 1, found |-> NoDevice, exc |-> NoExc]

\* control_transfer: a write sends a feature report, and send_feature_report
\* returns false when it did not go through (`first` / `retry` = Fail), the
\* result of the retried send being dropped; a read gets the report and has
\* no except clause; the method returns a value only for a read.
win32_control_transfer(b, dev, ser, bmRequestType, first, retry, openOk) ==
    IF dev = NoDevice
    THEN Ended("raise", None, Raw("AttributeError"), dev, 0, 0, NoDevice)
    ELSE IF bmRequestType = REQ_WRITE
    THEN IF first # Fail
         THEN Ended("return", None, NoExc, dev, 1, 0, NoDevice)
         ELSE LET rf == win32_refresh_device(b, dev, ser, openOk) IN
              IF rf.r = "raise"
              THEN Ended("raise", None, rf.exc, rf.dev, 1, rf.enums, rf.found)
              ELSE IF rf.r = "True"
              THEN Ended("return", None, NoExc, rf.dev, 2, rf.enums, rf.found)
              ELSE Ended("raise", None, CouldNotCommunicate(ser), rf.dev, 1, rf.enums, rf.found)
    ELSE IF bmRequestType = REQ_READ
    THEN IF first # Fail
         THEN Ended("return", first, NoExc, dev, 1, 0, NoDevice)
         ELSE Ended("raise", None, Raw(HIDError), dev, 1, 0, NoDevice)
    ELSE Ended("return", None, NoExc, dev, 0, 0, NoDevice)

\* get_serial / get_manufacturer / get_description: str(self.device.<attribute>),
\* an attribute of the device object, read without a transfer
win32_get_string(b, dev, index) ==
    IF dev = NoDevice
    THEN Ended("raise", None, Raw("AttributeError"), dev, 0, 0, NoDevice)
    ELSE Ended("return", StringOf(b, dev, index), NoExc, dev, 0, 0, NoDevice)

----------------------------------------------------------------------------
(* The device handle: state after construction, one action per operation *)

NoCall == [op |-> "none", reqType |-> 0, first |-> None, retry |-> None, openOk |-> TRUE,
           devBefore |-> NoDevice, serBefore |-> None,
           outcome |-> "none", ret |-> None, exc |-> NoExc, dev |-> NoDevice,
           attempts |-> 0, enums |-> 0, found |-> NoDevice]

\* the history record of an operation `op` that ended as `e`
Record(op, reqType, first, retry, openOk, e) ==
    [op |-> op, reqType |-> reqType, first |-> first, retry |-> retry, openOk |-> openOk,
     devBefore |-> device, serBefore |-> serial,
     outcome |-> e.outcome, ret |-> e.ret, exc |-> e.exc, dev |-> e.dev,
     attempts |-> e.attempts, enums |-> e.enums, found |-> e.found]

BusStatus == {"absent", "readable", "unreadable"}

\* Facade state as BlinkStick.__init__ leaves it
FacadeInit ==
    /\ error_reporting = TRUE
    /\ inverse = FALSE
    /\ max_rgb_value = 255
    /\ fcall = [op |-> "none"]
    /\ inverse_hist = [asked |-> "never", was_on |-> FALSE]

CodecIdle == [op |-> "none"]

\* the stick's info blocks before anything was written to them
BlankBlock == [i \in 1..32 |-> 0]
BlankStick ==
    /\ info_block = [n \in {1, 2} |-> [payload |-> BlankBlock, data |-> <<>>]]
    /\ led_mem = <<>>

\* no BlinkStickProMatrix object constructed
NoMatrix ==
    /\ rows = 0
    /\ cols = 0
    /\ matrix_data = <<>>
    /\ matrix_max_rgb_value = 255
    /\ pro_data = <<>>
    /\ pro_led_count = <<0, 0, 0>>
    /\ columns = <<0, 0, 0>>
    /\ bstick = None
    /\ mcall = [op |-> "none"]

Init ==
    /\ platform \in Platforms
    /\ bus \in [Devs -> [serial : DevSerials, status : BusStatus]]
    /\ hstate = "new"
    /\ device = NoDevice
    /\ serial = None
    /\ serial0 = None
    /\ call = NoCall
    /\ FacadeInit
    /\ codec = CodecIdle
    /\ BlankStick
    /\ NoMatrix

\* UnixLikeBackend.__init__(device): self.device = device; serial = None;
\* if device: open_device(); self.serial = self.get_serial()
UnixConstruct(d, firstOk, retryOk, openOk) ==
    /\ platform = "unix"
    /\ hstate = "new"
    /\ IF d = NoDevice
       THEN /\ hstate' = "ready"
            /\ device' = NoDevice
            /\ serial' = None
            /\ call' = Record("construct", 0, None, None, openOk,
                              Ended("return", None, NoExc, NoDevice, 0, 0, NoDevice))
       ELSE IF unix_open_device(d, openOk) # NoExc
       THEN /\ hstate' = "failed"
            /\ device' = d
            /\ serial' = None
            /\ call' = Record("construct", 0, None, None, openOk,
                              Ended("raise", None, unix_open_device(d, openOk), d, 0, 0, NoDevice))
       ELSE LET e == unix_usb_get_string(bus, d, None, 3, firstOk, retryOk, openOk) IN
            /\ hstate' = IF e.outcome = "return" THEN "ready" ELSE "failed"
            /\ device' = e.dev
            /\ serial' = IF e.outcome = "return" THEN e.ret ELSE None
            /\ call' = Record("construct", 0, IF firstOk THEN "ok" ELSE Fail, IF retryOk THEN "ok" ELSE Fail, openOk, e)
    /\ serial0' = serial'
    /\ UNCHANGED <<platform, bus, facadeVars, codec, inverse_hist, memVars, frameVars>>

\* Win32Backend.__init__(device): serial = None; self.device = device;
\* if device: device.open(); reports = ...; self.serial = self.get_serial()
Win32Construct(d, openOk) ==
    /\ platform = "win32"
    /\ hstate = "new"
    /\ IF d = NoDevice
       THEN /\ hstate' = "ready"
            /\ device' = NoDevice
            /\ serial' = None
            /\ call' = Record("construct", 0, None, None, openOk,
                              Ended("return", None, NoExc, NoDevice, 0, 0, NoDevice))
       ELSE IF ~openOk
       THEN /\ hstate' = "failed"
            /\ device' = d
            /\ serial' = None
            /\ call' = Record("construct", 0, None, None, openOk,
                              Ended("raise", None, Raw(HIDError), d, 0, 0, NoDevice))
       ELSE LET e == win32_get_string(bus, d, 3) IN
            /\ hstate' = "ready"
            /\ device' = d
            /\ serial' = e.ret
            /\ call' = Record("construct", 0, None, None, openOk, e)
    /\ serial0' = serial'
    /\ UNCHANGED <<platform, bus, facadeVars, codec, inverse_hist, memVars, frameVars>>

\* backend.control_transfer(bmRequestType, bRequest, wValue, wIndex, data_or_wLength)
ControlTransfer(bmRequestType, first, retry, openOk) ==
    /\ hstate = "ready"
    /\ LET e == IF platform = "unix"
                THEN unix_control_transfer(bus, device, serial, bmRequestType, first, retry, openOk)
                ELSE win32_control_transfer(bus, device, serial, bmRequestType, first, retry,
                                            openOk)
       IN /\ device' = e.dev
          /\ call' = Record("control_transfer", bmRequestType, first, retry, openOk, e)
    /\ UNCHANGED <<platform, bus, hstate, serial, serial0, facadeVars, codec, inverse_hist, memVars, frameVars>>

\* backend.get_serial() / get_manufacturer() / get_description()
StringOps == {<<"get_serial", 3>>, <<"get_manufacturer", 1>>, <<"get_description", 2>>}

GetString(op, firstOk, retryOk, openOk) ==
    /\ hstate = "ready"
    /\ LET e == IF platform = "unix"
                THEN unix_usb_get_string(bus, device, serial, op[2], firstOk, retryOk, openOk)
                ELSE win32_get_string(bus, device, op[2])
       IN /\ device' = e.dev
          /\ call' = Record(op[1], 0,
                            IF platform = "unix" /\ device # NoDevice
                            THEN (IF firstOk THEN "ok" ELSE Fail) ELSE None,
                            IF retryOk THEN "ok" ELSE Fail, openOk, e)
    /\ UNCHANGED <<platform, bus, hstate, serial, serial0, facadeVars, codec, inverse_hist, memVars, frameVars>>

\* The environment: a device is unplugged, plugged in, or stops or starts
\* answering descriptor reads
BusChange(d, st) ==
    /\ bus[d].status # st
    /\ bus' = [bus EXCEPT ![d].status = st]
    /\ UNCHANGED <<platform, hstate, device, serial, serial0, call, facadeVars, codec, inverse_hist, memVars, frameVars>>

\* The outcomes of the steps a call does not reach do not matter: when the
\* first attempt goes through, the retry and the re-open are not drawn.
Next ==
    \/ \E d \in Devs \cup {NoDevice}, firstOk \in BOOLEAN, openOk \in BOOLEAN :
          UnixConstruct(d, firstOk, TRUE, openOk)
    \/ \E d \in Devs \cup {NoDevice}, openOk \in BOOLEAN :
          Win32Construct(d, openOk)
    \/ \E t \in ReqTypes, first \in XferOutcomes, retry \in XferOutcomes, openOk \in BOOLEAN :
          /\ first # Fail => (retry = first /\ openOk)
          /\ ControlTransfer(t, first, retry, openOk)
    \/ \E op \in StringOps, firstOk \in BOOLEAN, retryOk \in BOOLEAN, openOk \in BOOLEAN :
          /\ firstOk => (retryOk /\ openOk)
          /\ GetString(op, firstOk, retryOk, openOk)
    \/ \E d \in Devs, st \in BusStatus :
          BusChange(d, st)

Spec == Init /\ [][Next]_vars

----------------------------------------------------------------------------
(* The BlinkStick facade over a constructed backend *)

\* self.backend.control_transfer(...) on the platform's backend
backend_control_transfer(bmRequestType, first, retry, openOk) ==
    IF platform = "unix"
    THEN unix_control_transfer(bus, device, serial, bmRequestType, first, retry, openOk)
    ELSE win32_control_transfer(bus, device, serial, bmRequestType, first, retry, openOk)

\* the arguments of one backend.control_transfer call
Transfer(bmRequestType, bRequest, wValue, wIndex, data_or_wLength) ==
    [bmRequestType |-> bmRequestType, bRequest |-> bRequest, wValue |-> wValue,
     wIndex |-> wIndex, data |-> data_or_wLength]

\* A facade whose backend was constructed on device object 1, which answered
\* with the serial "BS1"; that stick is now unplugged, or on the bus as one of
\* the device objects.
ReadyInit ==
    /\ platform \in Platforms
    /\ bus \in [Devs -> [serial : {"BS1"}, status : {"absent", "readable"}]]
    /\ Cardinality({d \in Devs : bus[d].status = "readable"}) <= 1
    /\ hstate = "ready"
    /\ device = 1
    /\ serial = "BS1"
    /\ serial0 = "BS1"
    /\ call = NoCall
    /\ FacadeInit
    /\ BlankStick

\* what the transport does during one facade operation
TransportInputs ==
    {i \in [first : {Fail, "resA"}, retry : {Fail, "resA"}, openOk : BOOLEAN] :
        i.first # Fail => (i.retry = i.first /\ i.openOk)}

----------------------------------------------------------------------------
(* Protocol codec: LED data frames *)

MaxLedCount == 200      \* largest led_count / data length tried
Channels == {0, 1, 2}   \* R, G, B

\* Variant: the boundaries are strict, so a full frame moves to the next report
determine_report_id_strict(led_count) ==
    IF led_count < 8 * 3 THEN <<6, 8>>
    ELSE IF led_count < 16 * 3 THEN <<7, 16>>
    ELSE IF led_count < 32 * 3 THEN <<8, 32>>
    ELSE <<9, 64>>

\* _determine_report_id(led_count) -> (report_id, max_leds)
determine_report_id(led_count) ==
    IF led_count <= 8 * 3 THEN <<6, 8>>
    ELSE IF led_count <= 16 * 3 THEN <<7, 16>>
    ELSE IF led_count <= 32 * 3 THEN <<8, 32>>
    ELSE IF led_count <= 64 * 3 THEN <<9, 64>>
    ELSE <<9, 64>>

\* Variant: the header is followed by the whole data list, padded when short
led_report_untruncated(channel, data, max_leds) ==
    <<0, channel>> \o data \o
        [i \in 1..(IF Len(data) < max_leds * 3 THEN max_leds * 3 - Len(data) ELSE 0) |-> 0]

\* set_led_data: report = [0, channel], then for i in range(max_leds * 3)
\* data[i] if len(data) > i else 0
led_report(channel, data, max_leds) ==
    <<0, channel>> \o [i \in 1..(max_leds * 3) |-> IF Len(data) > i - 1 THEN data[i] ELSE 0]

\* LED data frames given to set_led_data: n bytes, byte i being (3 * i + 7) mod 256
LedData(n) == [i \in 1..n |-> (3 * i + 7) % 256]

\* lengths on both sides of every boundary of the report table, up to MaxLedCount
DataLens == {0, 1, 24, 25, 48, 49, 96, 97, 192, 193, MaxLedCount}

DetermineReportId(led_count) ==
    /\ codec' = [op |-> "_determine_report_id", led_count |-> led_count,
                 report_id |-> determine_report_id(led_count)[1],
                 max_leds |-> determine_report_id(led_count)[2]]
    /\ UNCHANGED <<backendVars, facadeVars, inverse_hist, memVars, frameVars>>

\* set_led_data(channel, data)
SetLedData(channel, data, io) ==
    \E rm \in {determine_report_id(Len(data))},
       e \in {backend_control_transfer(REQ_WRITE, io.first, io.retry, io.openOk)} :
    \E report \in {led_report(channel, data, rm[2])} :
       /\ device' = e.dev
       /\ codec' = [op |-> "set_led_data", channel |-> channel, data |-> data,
                    sent |-> <<Transfer(REQ_WRITE, 9, rm[1], 0, report)>>,
                    outcome |-> e.outcome, exc |-> e.exc]
       /\ UNCHANGED <<platform, bus, hstate, serial, serial0, call, facadeVars,
                      inverse_hist, memVars, frameVars>>

CodecInit ==
    /\ ReadyInit
    /\ codec = CodecIdle
    /\ NoMatrix

ReportIdNext ==
    \E led_count \in 0..MaxLedCount : DetermineReportId(led_count)

SpecReportId == CodecInit /\ [][ReportIdNext]_vars

CodecNext ==
    \E channel \in Channels, n \in DataLens, io \in TransportInputs :
        SetLedData(channel, LedData(n), io)

SpecCodec == CodecInit /\ [][CodecNext]_vars

----------------------------------------------------------------------------
(* Colours (blinkstick.colors) *)

\* a colour returned, or ValueError raised
Rgb(r, g, b) == [raised |-> FALSE, rgb |-> <<r, g, b>>]
ValueError == [raised |-> TRUE, rgb |-> <<0, 0, 0>>]

\* name_to_rgb(name): the colour of a CSS name, ValueError for an unknown one
name_to_rgb(name) ==
    CASE name = "red" -> Rgb(255, 0, 0)
      [] name = "teal" -> Rgb(0, 128, 128)
      [] OTHER -> ValueError

\* hex_to_rgb(hex): "#RRGGBB" parsed, ValueError for anything else
hex_to_rgb(hex) ==
    CASE hex = "#0000ff" -> Rgb(0, 0, 255)
      [] hex = "#102030" -> Rgb(16, 32, 48)
      [] OTHER -> ValueError

\* remap_color(value, max_value): value * max_value / 255, rounded
remap_color(value, max_value) == (2 * value * max_value + 255) \div (2 * 255)

remap_rgb_value(rgb, max_value) ==
    <<remap_color(rgb[1], max_value), remap_color(rgb[2], max_value), remap_color(rgb[3], max_value)>>

----------------------------------------------------------------------------
(* BlinkStick: colours of single LEDs *)

\* `if name:` / `elif hex:`
Given(s) == s # None /\ s # ""

\* Variant: a name that does not parse gives way to the hex string
determine_rgb_name_falls_back(red, green, blue, name, hex, rnd, max_value) ==
    LET byName == IF name = "random" THEN Rgb(rnd[1], rnd[2], rnd[3]) ELSE name_to_rgb(name)
        resolved ==
            IF Given(name) /\ ~byName.raised THEN byName
            ELSE IF Given(hex) THEN hex_to_rgb(hex)
            ELSE Rgb(red, green, blue)
    IN remap_rgb_value(IF resolved.raised THEN <<0, 0, 0>> ELSE resolved.rgb, max_value)

\* _determine_rgb(red, green, blue, name, hex); `rnd` is what the three
\* randint(0, 255) calls return
determine_rgb(red, green, blue, name, hex, rnd, max_value) ==
    LET resolved ==
            IF Given(name)
            THEN IF name = "random" THEN Rgb(rnd[1], rnd[2], rnd[3]) ELSE name_to_rgb(name)
            ELSE IF Given(hex) THEN hex_to_rgb(hex)
            ELSE Rgb(red, green, blue)
    IN remap_rgb_value(IF resolved.raised THEN <<0, 0, 0>> ELSE resolved.rgb, max_value)

\* Variant: the components are sent as resolved, inverse mode being ignored
color_report_not_inverted(channel, index, rgb, inv) ==
    IF index = 0 /\ channel = 0
    THEN [report_id |-> 1, control_string |-> <<0, rgb[1], rgb[2], rgb[3]>>]
    ELSE [report_id |-> 5, control_string |-> <<5, channel, index, rgb[1], rgb[2], rgb[3]>>]

\* set_color, lines 171-183: inversion, then the report for (channel, index)
color_report(channel, index, rgb, inv) ==
    LET r == IF inv THEN 255 - rgb[1] ELSE rgb[1]
        g == IF inv THEN 255 - rgb[2] ELSE rgb[2]
        b == IF inv THEN 255 - rgb[3] ELSE rgb[3]
    IN IF index = 0 /\ channel = 0
       THEN [report_id |-> 1, control_string |-> <<0, r, g, b>>]
       ELSE [report_id |-> 5, control_string |-> <<5, channel, index, r, g, b>>]

\* Variant: the exception is swallowed whatever the flag says
propagates_never(reporting, e) == FALSE

\* set_color, lines 185-191: an exception of the transfer reaches the caller
\* only with error reporting on
propagates(reporting, e) == reporting /\ e.outcome = "raise"

\* set_color(channel, index, red, green, blue, name, hex); what becomes of
\* the stick's LED memory is the stick's part of the step
SetColor(channel, index, a, rnd, io) ==
    \E rgb \in {determine_rgb(a.red, a.green, a.blue, a.name, a.hex, rnd, max_rgb_value)},
       e \in {backend_control_transfer(REQ_WRITE, io.first, io.retry, io.openOk)} :
    \E rep \in {color_report(channel, index, rgb, inverse)} :
       /\ device' = e.dev
       /\ fcall' = [op |-> "set_color", channel |-> channel, index |-> index, args |-> a,
                    rnd |-> IF a.name = "random" THEN rnd ELSE <<0, 0, 0>>,
                    sent |-> <<Transfer(REQ_WRITE, 9, rep.report_id, 0, rep.control_string)>>,
                    backend |-> [outcome |-> e.outcome, exc |-> e.exc,
                                 attempts |-> e.attempts, enums |-> e.enums, found |-> e.found],
                    outcome |-> IF propagates(error_reporting, e) THEN "raise" ELSE "return",
                    exc |-> IF propagates(error_reporting, e) THEN e.exc ELSE NoExc]
       /\ UNCHANGED <<platform, bus, hstate, serial, serial0, call,
                      error_reporting, inverse, max_rgb_value, codec,
                      inverse_hist, info_block, frameVars>>

\* set_error_reporting(error_reporting)
SetErrorReporting(value) ==
    /\ error_reporting' = value
    /\ fcall' = [op |-> "set_error_reporting", value |-> value]
    /\ UNCHANGED <<backendVars, inverse, max_rgb_value, codec, inverse_hist, memVars, frameVars>>

\* arguments given to set_inverse: a bool, or a str
Bool(b) == [isStr |-> FALSE, bool |-> b, str |-> ""]
Str(t) == [isStr |-> TRUE, bool |-> FALSE, str |-> t]
InverseArgs == {Bool(TRUE), Bool(FALSE), Str("True"), Str("false")}

\* str.lower() of the strings of InverseArgs
Lower(t) == IF t \in {"True", "TRUE", "true"} THEN "true" ELSE IF t \in {"False", "false"} THEN "false" ELSE t

\* Variant: inverse mode, once on, stays on
SetInverse_sticky(value) ==
    /\ inverse' = (inverse \/ (IF value.isStr THEN Lower(value.str) = "true" ELSE value.bool))
    /\ fcall' = [op |-> "set_inverse", value |-> value]
    /\ inverse_hist' = [asked |-> IF value \in {Bool(TRUE), Str("True")} THEN "on" ELSE "off",
                        was_on |-> inverse_hist.was_on \/ inverse']
    /\ UNCHANGED <<backendVars, error_reporting, max_rgb_value, codec, memVars, frameVars>>

\* set_inverse(value): a str is true when it reads "true" in any case
SetInverse(value) ==
    /\ inverse' = (IF value.isStr THEN Lower(value.str) = "true" ELSE value.bool)
    /\ fcall' = [op |-> "set_inverse", value |-> value]
    /\ inverse_hist' = [asked |-> IF value \in {Bool(TRUE), Str("True")} THEN "on" ELSE "off",
                        was_on |-> inverse_hist.was_on \/ inverse']
    /\ UNCHANGED <<backendVars, error_reporting, max_rgb_value, codec, memVars, frameVars>>

Min(a, b) == IF a < b THEN a ELSE b
Max(a, b) == IF a > b THEN a ELSE b

\* Variant: only the upper end is clamped
SetMaxRgbValue_without_floor(value) ==
    /\ max_rgb_value' = Min(255, value)
    /\ fcall' = [op |-> "set_max_rgb_value", value |-> value]
    /\ UNCHANGED <<backendVars, error_reporting, inverse, codec, inverse_hist, memVars, frameVars>>

\* set_max_rgb_value(value): max(0, min(255, int(value)))
SetMaxRgbValue(value) ==
    /\ max_rgb_value' = Max(0, Min(255, value))
    /\ fcall' = [op |-> "set_max_rgb_value", value |-> value]
    /\ UNCHANGED <<backendVars, error_reporting, inverse, codec, inverse_hist, memVars, frameVars>>

\* get_max_rgb_value(): the stored value
GetMaxRgbValue ==
    /\ fcall' = [op |-> "get_max_rgb_value", ret |-> max_rgb_value]
    /\ UNCHANGED <<backendVars, error_reporting, inverse, max_rgb_value, codec,
                   inverse_hist, memVars, frameVars>>

\* arguments given to set_color
NoColor == [red |-> 0, green |-> 0, blue |-> 0, name |-> None, hex |-> None]
ColorArgs ==
    { NoColor,
      [NoColor EXCEPT !.red = 255, !.green = 128, !.blue = 1],
      [NoColor EXCEPT !.name = "red", !.hex = "#0000ff", !.blue = 9],
      [NoColor EXCEPT !.name = "nosuchcolor", !.hex = "#0000ff", !.green = 9],
      [NoColor EXCEPT !.hex = "#102030", !.red = 9],
      [NoColor EXCEPT !.hex = "zzz", !.red = 9, !.green = 8, !.blue = 7],
      [NoColor EXCEPT !.name = "random"] }
RandomColors == {<<0, 255, 7>>, <<200, 0, 255>>}
LedTargets == {<<0, 0>>, <<0, 1>>, <<1, 0>>, <<2, 63>>}     \* (channel, index)
MaxRgbArgs == {-5, 100, 255, 1000}

FacadeNext ==
    \/ \E t \in LedTargets, a \in ColorArgs, rnd \in RandomColors, io \in TransportInputs :
          /\ a.name # "random" => rnd = <<0, 255, 7>>
          /\ SetColor(t[1], t[2], a, rnd, io)
          /\ UNCHANGED led_mem
    \/ \E value \in BOOLEAN : SetErrorReporting(value)
    \/ \E value \in InverseArgs : SetInverse(value)
    \/ \E value \in MaxRgbArgs : SetMaxRgbValue(value)
    \/ GetMaxRgbValue

SpecFacade == CodecInit /\ [][FacadeNext]_vars

----------------------------------------------------------------------------
(* BlinkStick: info blocks *)

MaxInfoLen == 32        \* longest string given to set_info_block1/2

\* Variant: only the first 30 characters are kept
string_to_info_block_data_keeps_30(data) ==
    [i \in 1..32 |-> IF i = 1 THEN 1
                     ELSE IF i - 1 <= Min(Len(data), 30) THEN data[i - 1]
                     ELSE 0]

\* string_to_info_block_data(data): a str is the sequence of its character codes
string_to_info_block_data(data) ==
    [i \in 1..32 |-> IF i = 1 THEN 1
                     ELSE IF i - 1 <= Min(Len(data), 31) THEN data[i - 1]
                     ELSE 0]

\* the loop of get_info_block1/2 from position k of device_bytes: the
\* characters up to the first zero byte
RECURSIVE chars_until_zero(_, _)
chars_until_zero(device_bytes, k) ==
    IF k > Len(device_bytes) \/ device_bytes[k] = 0
    THEN <<>>
    ELSE <<device_bytes[k]>> \o chars_until_zero(device_bytes, k + 1)

\* get_info_block1/2, the decoding of device_bytes[1:]
info_block_string(device_bytes) == chars_until_zero(device_bytes, 2)

\* the bytes that go on the wire: Win32Backend.control_transfer overwrites
\* byte 0 of a write with wValue
wire_data(wValue, data) ==
    IF platform = "win32" THEN [data EXCEPT ![1] = wValue] ELSE data

\* a transfer reached the stick: the first attempt, or the one after a reconnect
Delivered(io, e) ==
    \/ e.attempts >= 1 /\ io.first # Fail
    \/ e.attempts = 2 /\ io.retry # Fail

\* set_info_block1(data) (block = 1) and set_info_block2(data) (block = 2); the
\* stick keeps the 32 bytes of a write that reached it, and `data` next to
\* them records the string they were made from
SetInfoBlock(block, data, io) ==
    \E e \in {backend_control_transfer(REQ_WRITE, io.first, io.retry, io.openOk)},
       payload \in {string_to_info_block_data(data)} :
       /\ device' = e.dev
       /\ info_block' = IF Delivered(io, e)
                        THEN [info_block EXCEPT ![block] =
                                  [payload |-> wire_data(block + 1, payload), data |-> data]]
                        ELSE info_block
       /\ fcall' = [op |-> "set_info_block", block |-> block, data |-> data,
                    sent |-> <<Transfer(REQ_WRITE, 9, block + 1, 0, payload)>>,
                    stored |-> Delivered(io, e),
                    outcome |-> e.outcome, exc |-> e.exc]
       /\ UNCHANGED <<platform, bus, hstate, serial, serial0, call,
                      error_reporting, inverse, max_rgb_value, codec, inverse_hist,
                      led_mem, frameVars>>

\* get_info_block1() (block = 1) and get_info_block2() (block = 2): the stick
\* answers a read that reaches it with the bytes it keeps
GetInfoBlock(block, io) ==
    \E e \in {backend_control_transfer(REQ_READ, io.first, io.retry, io.openOk)} :
       /\ device' = e.dev
       /\ fcall' = [op |-> "get_info_block", block |-> block,
                    sent |-> <<Transfer(REQ_READ, 1, block + 1, 0, 33)>>,
                    outcome |-> e.outcome, exc |-> e.exc,
                    ret |-> IF e.outcome = "return"
                            THEN info_block_string(info_block[block].payload)
                            ELSE <<>>]
       /\ UNCHANGED <<platform, bus, hstate, serial, serial0, call,
                      error_reporting, inverse, max_rgb_value, codec, inverse_hist,
                      memVars, frameVars>>

\* strings given to set_info_block1/2: letters, and two with a NUL character
Text(n) == [i \in 1..n |-> 65 + (i % 26)]
InfoStrings == {Text(0), Text(2), Text(31), Text(MaxInfoLen), <<65, 0, 66>>, <<0, 65>>}

InfoNext ==
    \/ \E block \in {1, 2}, data \in InfoStrings, io \in TransportInputs :
          SetInfoBlock(block, data, io)
    \/ \E block \in {1, 2}, io \in TransportInputs : GetInfoBlock(block, io)

SpecInfo == CodecInit /\ [][InfoNext]_vars

----------------------------------------------------------------------------
(* BlinkStick: animations, as the set_color calls and sleeps they make *)

MaxRepeats == 3         \* largest `repeats` given to blink

\* self.backend.control_transfer(...) of a write, on the device object `dev`
\* an earlier call of the same animation left in the backend
backend_write_on(dev, io) ==
    IF platform = "unix"
    THEN unix_control_transfer(bus, dev, serial, REQ_WRITE, io.first, io.retry, io.openOk)
    ELSE win32_control_transfer(bus, dev, serial, REQ_WRITE, io.first, io.retry, io.openOk)

\* one set_color(channel, index, red, green, blue, name, hex) call made by an
\* animation: the transfer asked of the backend and how the call ended
set_color_on(dev, channel, index, a, io) ==
    LET rgb == determine_rgb(a.red, a.green, a.blue, a.name, a.hex, <<0, 0, 0>>, max_rgb_value)
        rep == color_report(channel, index, rgb, inverse)
        e == backend_write_on(dev, io)
    IN [dev |-> e.dev,
        transfer |-> Transfer(REQ_WRITE, 9, rep.report_id, 0, rep.control_string),
        raised |-> propagates(error_reporting, e),
        exc |-> IF propagates(error_reporting, e) THEN e.exc ELSE NoExc]

\* the steps of an animation and the events of its run
NoTransfer == Transfer(0, 0, 0, 0, <<>>)
SetStep(channel, index, a) == [kind |-> "set_color", channel |-> channel, index |-> index, args |-> a, ms |-> 0]
SleepStep(ms) == [kind |-> "sleep", channel |-> 0, index |-> 0, args |-> NoColor, ms |-> ms]
SetEvent(t) == [kind |-> "set_color", transfer |-> t, ms |-> 0]
SleepEvent(ms) == [kind |-> "sleep", transfer |-> NoTransfer, ms |-> ms]

\* the transport during an animation: every transfer goes through, but for
\* the one of set_color call number `at` (0: none), which meets `io`
OkIo == [first |-> "resA", retry |-> "resA", openOk |-> TRUE]
FailingIo == {[first |-> Fail, retry |-> Fail, openOk |-> TRUE],
              [first |-> Fail, retry |-> "resA", openOk |-> TRUE]}
Faults == {[at |-> 0, io |-> OkIo]} \cup [at : 1..2, io : FailingIo]

\* the statements of an animation run in order from step k; an exception of a
\* set_color call ends the run
RECURSIVE run_steps(_, _, _, _, _, _)
run_steps(prog, k, dev, trace, nset, fault) ==
    IF k > Len(prog)
    THEN [dev |-> dev, trace |-> trace, outcome |-> "return", exc |-> NoExc]
    ELSE IF prog[k].kind = "sleep"
    THEN run_steps(prog, k + 1, dev, Append(trace, SleepEvent(prog[k].ms)), nset, fault)
    ELSE LET c == set_color_on(dev, prog[k].channel, prog[k].index, prog[k].args,
                               IF fault.at = nset + 1 THEN fault.io ELSE OkIo)
         IN IF c.raised
            THEN [dev |-> c.dev, trace |-> Append(trace, SetEvent(c.transfer)),
                  outcome |-> "raise", exc |-> c.exc]
            ELSE run_steps(prog, k + 1, c.dev, Append(trace, SetEvent(c.transfer)), nset + 1, fault)

\* Variant: a sleep follows the black of every repeat, the last included
RECURSIVE blink_steps_sleep_after_black(_, _, _, _, _, _)
blink_steps_sleep_after_black(x, channel, index, a, repeats, delay) ==
    IF x >= repeats
    THEN <<>>
    ELSE <<SetStep(channel, index, a), SleepStep(delay), SetStep(channel, index, NoColor), SleepStep(delay)>>
         \o blink_steps_sleep_after_black(x + 1, channel, index, a, repeats, delay)

\* blink, lines 596-609: the body of `for x in range(repeats)` from x on;
\* time.sleep(ms_delay) is recorded with the delay in milliseconds
RECURSIVE blink_steps(_, _, _, _, _, _)
blink_steps(x, channel, index, a, repeats, delay) ==
    IF x >= repeats
    THEN <<>>
    ELSE (IF x # 0 THEN <<SleepStep(delay)>> ELSE <<>>)
         \o <<SetStep(channel, index, a), SleepStep(delay), SetStep(channel, index, NoColor)>>
         \o blink_steps(x + 1, channel, index, a, repeats, delay)

\* blink(channel, index, red, green, blue, name, hex, repeats, delay)
Blink(channel, index, a, repeats, delay, fault) ==
    \E r \in {run_steps(blink_steps(0, channel, index, a, repeats, delay), 1, device, <<>>, 0, fault)} :
       /\ device' = r.dev
       /\ fcall' = [op |-> "blink", channel |-> channel, index |-> index, args |-> a,
                    repeats |-> repeats, delay |-> delay, trace |-> r.trace,
                    outcome |-> r.outcome, exc |-> r.exc]
       /\ UNCHANGED <<platform, bus, hstate, serial, serial0, call,
                      error_reporting, inverse, max_rgb_value, codec, inverse_hist,
                      memVars, frameVars>>

\* arguments given to the animations
AnimTargets == {<<0, 0>>, <<1, 2>>}                  \* (channel, index)
AnimColors == {[NoColor EXCEPT !.red = 255, !.green = 128, !.blue = 1],
               [NoColor EXCEPT !.name = "teal"]}

BlinkNext ==
    \/ \E t \in AnimTargets, a \in AnimColors, repeats \in 0..MaxRepeats, fault \in Faults :
          /\ fault.at <= 2 * repeats
          /\ Blink(t[1], t[2], a, repeats, 500, fault)
    \/ \E value \in BOOLEAN : SetErrorReporting(value)
    \/ \E value \in InverseArgs : SetInverse(value)

SpecBlink == CodecInit /\ [][BlinkNext]_vars

----------------------------------------------------------------------------
(* BlinkStick: morph *)

MaxSteps == 3           \* largest `steps` given to morph

\* remap_color_reverse(value, max_value) of blinkstick.colors: the scaling of
\* remap_color undone, value * 255 / max_value, rounded; a max_value of 0
\* divides by zero
ZeroDivisionError == [raised |-> TRUE, rgb |-> <<0, 0, 0>>]
remap_color_reverse(value, max_value) == (2 * value * 255 + max_value) \div (2 * max_value)

remap_rgb_value_reverse(rgb, max_value) ==
    IF max_value = 0
    THEN ZeroDivisionError
    ELSE Rgb(remap_color_reverse(rgb[1], max_value), remap_color_reverse(rgb[2], max_value),
             remap_color_reverse(rgb[3], max_value))

\* _get_color_rgb(index) when the read went through, `stick` being the
\* (r, g, b) the stick reports for the LED: LED 0 is read with report 1 and
\* inverted back in inverse mode, the others come out of get_led_data as they are
get_color_rgb(index, stick) ==
    IF index = 0
    THEN IF inverse THEN <<255 - stick[1], 255 - stick[2], 255 - stick[3]>> ELSE stick
    ELSE stick

\* morph, lines 670-677 and 686: the colours between start and end, `steps`
\* being the argument plus one. int() is taken of the exact quotient here; the
\* float sum of the code can fall just below a whole number and then gives one
\* less. No property below reads the colours in between.
gradient(start, end, steps) ==
    [n \in 1..(steps - 1) |->
        [i \in 1..3 |-> (start[i] * (steps - n) + end[i] * n) \div steps]]

Components(rgb) == [NoColor EXCEPT !.red = rgb[1], !.green = rgb[2], !.blue = rgb[3]]

\* morph, lines 681-693: set_color(start); per gradient colour set_color and
\* sleep; set_color(end). time.sleep is recorded in whole milliseconds
RECURSIVE gradient_steps(_, _, _, _, _)
gradient_steps(n, channel, index, grad, ms) ==
    IF n > Len(grad)
    THEN <<>>
    ELSE <<SetStep(channel, index, Components(grad[n])), SleepStep(ms)>>
         \o gradient_steps(n + 1, channel, index, grad, ms)

morph_steps(channel, index, start, end, steps, duration) ==
    <<SetStep(channel, index, Components(start))>>
    \o gradient_steps(1, channel, index, gradient(start, end, steps + 1), duration \div (steps + 1))
    \o <<SetStep(channel, index, Components(end))>>

\* morph(channel, index, red, green, blue, name, hex, duration, steps); `stick`
\* is the colour the stick reports for the LED, `readIo` what the transport
\* does to the read, `fault` what it does to the writes
Morph(channel, index, a, duration, steps, stick, readIo, fault) ==
    \E end \in {remap_rgb_value_reverse(
                    determine_rgb(a.red, a.green, a.blue, a.name, a.hex, <<0, 0, 0>>, max_rgb_value),
                    max_rgb_value)} :
       IF end.raised
       THEN /\ fcall' = [op |-> "morph", channel |-> channel, index |-> index, args |-> a,
                         steps |-> steps, stick |-> stick, read |-> "none", at |-> 0,
                         trace |-> <<>>, outcome |-> "raise", exc |-> Raw("ZeroDivisionError")]
            /\ UNCHANGED <<backendVars, error_reporting, inverse, max_rgb_value, codec,
                           inverse_hist, memVars, frameVars>>
       ELSE \E rd \in {backend_control_transfer(REQ_READ, readIo.first, readIo.retry, readIo.openOk)} :
            IF rd.outcome = "raise"
            THEN /\ device' = rd.dev
                 /\ fcall' = [op |-> "morph", channel |-> channel, index |-> index, args |-> a,
                              steps |-> steps, stick |-> stick, read |-> "raise", at |-> 0,
                              trace |-> <<>>, outcome |-> "raise", exc |-> rd.exc]
                 /\ UNCHANGED <<platform, bus, hstate, serial, serial0, call,
                                error_reporting, inverse, max_rgb_value, codec,
                                inverse_hist, memVars, frameVars>>
            ELSE \E read \in {remap_rgb_value_reverse(get_color_rgb(index, stick), max_rgb_value).rgb} :
                 \E start \in {IF read[1] > 255 \/ read[2] > 255 \/ read[3] > 255
                               THEN <<0, 0, 0>> ELSE read} :
                 \E r \in {run_steps(morph_steps(channel, index, start, end.rgb, steps, duration),
                                     1, rd.dev, <<>>, 0, fault)} :
                    /\ device' = r.dev
                    /\ fcall' = [op |-> "morph", channel |-> channel, index |-> index, args |-> a,
                                 steps |-> steps, stick |-> stick, read |-> "return", at |-> fault.at,
                                 trace |-> r.trace, outcome |-> r.outcome, exc |-> r.exc]
                    /\ UNCHANGED <<platform, bus, hstate, serial, serial0, call,
                                   error_reporting, inverse, max_rgb_value, codec,
                                   inverse_hist, memVars, frameVars>>

\* colours the stick reports, and what the transport does during a morph: all
\* goes through, or the read fails, or one of the first two writes does
StickColors == {<<0, 0, 0>>, <<90, 200, 7>>}
StepCounts == {0, 1, MaxSteps}
MorphTransport ==
    {[readIo |-> OkIo, fault |-> [at |-> 0, io |-> OkIo]],
     [readIo |-> [first |-> Fail, retry |-> Fail, openOk |-> TRUE], fault |-> [at |-> 0, io |-> OkIo]],
     [readIo |-> OkIo, fault |-> [at |-> 1, io |-> [first |-> Fail, retry |-> Fail, openOk |-> TRUE]]],
     [readIo |-> OkIo, fault |-> [at |-> 2, io |-> [first |-> Fail, retry |-> "resA", openOk |-> TRUE]]]}

MorphNext ==
    \/ \E t \in AnimTargets, a \in AnimColors, steps \in StepCounts, stick \in StickColors,
          tr \in MorphTransport :
          Morph(t[1], t[2], a, 1000, steps, stick, tr.readIo, tr.fault)
    \/ \E value \in BOOLEAN : SetErrorReporting(value)
    \/ \E value \in InverseArgs : SetInverse(value)
    \/ \E value \in MaxRgbArgs : SetMaxRgbValue(value)

SpecMorph == CodecInit /\ [][MorphNext]_vars

----------------------------------------------------------------------------
(* BlinkStick: get_color *)

\* ColorFormat.from_name(name) of blinkstick.colors: the member of that name,
\* ValueError for a name that is none
ColorFormats == {"RGB", "HEX"}
from_name(name) ==
    CASE name = "rgb" -> "RGB"
      [] name = "hex" -> "HEX"
      [] OTHER -> "ValueError"

\* Variant: a color_format that is no format leaves color_mode as it was given
resolve_color_mode_keeps_mode(color_mode, color_format) ==
    IF Given(color_format)
    THEN IF from_name(color_format) = "ValueError" THEN color_mode ELSE from_name(color_format)
    ELSE color_mode

\* get_color, lines 282-290: a color_format that is given replaces color_mode,
\* by RGB when it names no format
resolve_color_mode(color_mode, color_format) ==
    IF Given(color_format)
    THEN IF from_name(color_format) = "ValueError" THEN "RGB" ELSE from_name(color_format)
    ELSE color_mode

\* color_funcs.get(color_mode, self._get_color_rgb)
color_func(color_mode) ==
    IF color_mode = "HEX" THEN "_get_color_hex" ELSE "_get_color_rgb"

\* "#%02x%02x%02x" % (r, g, b), a str being the sequence of its characters
HexDigits == <<"0", "1", "2", "3", "4", "5", "6", "7", "8", "9", "a", "b", "c", "d", "e", "f">>
hex_string(rgb) ==
    <<"#", HexDigits[(rgb[1] \div 16) + 1], HexDigits[(rgb[1] % 16) + 1],
           HexDigits[(rgb[2] \div 16) + 1], HexDigits[(rgb[2] % 16) + 1],
           HexDigits[(rgb[3] \div 16) + 1], HexDigits[(rgb[3] % 16) + 1]>>

\* the read _get_color_rgb(index) asks of the backend: report 1 for LED 0, the
\* LED frame of get_led_data((index + 1) * 3) for the others
color_read(index) ==
    IF index = 0
    THEN Transfer(REQ_READ, 1, 1, 0, 33)
    ELSE Transfer(REQ_READ, 1, determine_report_id((index + 1) * 3)[1], 0,
                  determine_report_id((index + 1) * 3)[2] * 3 + 2)

\* what get_color returns: a tuple or a str
TupleValue(rgb) == [type |-> "tuple", rgb |-> rgb, str |-> <<>>]
StrValue(s) == [type |-> "str", rgb |-> <<>>, str |-> s]
NoValue == [type |-> "none", rgb |-> <<>>, str |-> <<>>]

\* get_color(index, color_mode, color_format); `stick` is the colour the stick
\* reports for the LED. `called` lists the getters get_color itself invokes
\* (_get_color_hex reads through _get_color_rgb in turn), `sent` the reads made
GetColor(index, color_mode, color_format, stick, io) ==
    \E mode \in {resolve_color_mode(color_mode, color_format)},
       e \in {backend_control_transfer(REQ_READ, io.first, io.retry, io.openOk)} :
       /\ device' = e.dev
       /\ fcall' = [op |-> "get_color", index |-> index, color_mode |-> color_mode,
                    color_format |-> color_format, stick |-> stick,
                    warned |-> Given(color_format),
                    called |-> <<color_func(mode)>>,
                    sent |-> <<color_read(index)>>,
                    outcome |-> e.outcome, exc |-> e.exc,
                    ret |-> IF e.outcome = "raise" THEN NoValue
                            ELSE IF color_func(mode) = "_get_color_hex"
                            THEN StrValue(hex_string(get_color_rgb(index, stick)))
                            ELSE TupleValue(get_color_rgb(index, stick))]
       /\ UNCHANGED <<platform, bus, hstate, serial, serial0, call,
                      error_reporting, inverse, max_rgb_value, codec, inverse_hist,
                      memVars, frameVars>>

ColorFormatArgs == {None, "", "rgb", "hex", "invalid_format"}

GetColorNext ==
    \/ \E index \in {0, 1}, color_mode \in ColorFormats, color_format \in ColorFormatArgs,
          stick \in StickColors, io \in TransportInputs :
          GetColor(index, color_mode, color_format, stick, io)
    \/ \E value \in InverseArgs : SetInverse(value)

SpecGetColor == CodecInit /\ [][GetColorNext]_vars

----------------------------------------------------------------------------
(* BlinkStickProMatrix: the frame buffer of a matrix *)

MaxRows == 3            \* largest number of rows
MaxCols == 3            \* largest number of columns
MaxPixels == 6          \* largest rows * cols

\* _coord_to_index(x, y)
coord_to_index(x, y) == y * cols + x

\* Python list indexing of a list of n items: a negative index counts from
\* the end, an index outside -n..n-1 raises IndexError (position 0: none)
list_position(i, n) ==
    IF 0 <= i /\ i < n THEN i + 1
    ELSE IF -n <= i /\ i < 0 THEN n + i + 1
    ELSE 0

\* BlinkStickProMatrix.get_color(x, y) on the buffer `data`: val[1], val[0], val[2]
matrix_get_color(data, x, y) ==
    LET val == data[list_position(coord_to_index(x, y), Len(data))]
    IN <<val[2], val[1], val[3]>>

\* Variant: the components are stored in the order given
matrix_set_color_rgb_order(data, x, y, rgb, remap_values) ==
    LET c == IF remap_values THEN remap_rgb_value(rgb, matrix_max_rgb_value) ELSE rgb
    IN [data EXCEPT ![list_position(coord_to_index(x, y), Len(data))] = <<c[1], c[2], c[3]>>]

\* BlinkStickProMatrix.set_color(x, y, r, g, b, remap_values) on the buffer
\* `data`: matrix_data[index] = [g, r, b]
matrix_set_color(data, x, y, rgb, remap_values) ==
    LET c == IF remap_values THEN remap_rgb_value(rgb, matrix_max_rgb_value) ELSE rgb
    IN [data EXCEPT ![list_position(coord_to_index(x, y), Len(data))] = <<c[2], c[1], c[3]>>]

\* the statements `r, g, b = self.get_color(src); self.set_color(dst, r, g, b,
\* False)` of a shift loop, run in loop order from the k-th on; a move is
\* <<dst x, dst y, src x, src y>>
RECURSIVE run_moves(_, _, _)
run_moves(data, moves, k) ==
    IF k > Len(moves)
    THEN data
    ELSE run_moves(matrix_set_color(data, moves[k][1], moves[k][2],
                                    matrix_get_color(data, moves[k][3], moves[k][4]), FALSE),
                   moves, k + 1)

\* the set_color calls that fill the vacated line: with black, or with the
\* colours saved in temp; a fill is <<x, y, colour>>
RECURSIVE run_fills(_, _, _)
run_fills(data, fills, k) ==
    IF k > Len(fills)
    THEN data
    ELSE run_fills(matrix_set_color(data, fills[k][1], fills[k][2], fills[k][3], FALSE), fills, k + 1)

Black == <<0, 0, 0>>

\* Variant: the vacated column is left as it was
shift_left_keeps_last_column(data, remove) ==
    LET temp == [y \in 1..rows |-> matrix_get_color(data, 0, y - 1)]
        moves == [i \in 1..(rows * (cols - 1)) |->
                     <<(i - 1) % (cols - 1), (i - 1) \div (cols - 1),
                       ((i - 1) % (cols - 1)) + 1, (i - 1) \div (cols - 1)>>]
        fills == [y \in 1..rows |-> <<cols - 1, y - 1, temp[y]>>]
    IN IF remove THEN run_moves(data, moves, 1) ELSE run_fills(run_moves(data, moves, 1), fills, 1)

\* shift_left(remove): for y in range(rows): for x in range(cols - 1):
\* (x, y) <- (x + 1, y); then column cols - 1 <- black or the saved column 0
shift_left(data, remove) ==
    LET temp == [y \in 1..rows |-> matrix_get_color(data, 0, y - 1)]
        moves == [i \in 1..(rows * (cols - 1)) |->
                     <<(i - 1) % (cols - 1), (i - 1) \div (cols - 1),
                       ((i - 1) % (cols - 1)) + 1, (i - 1) \div (cols - 1)>>]
        fills == [y \in 1..rows |-> <<cols - 1, y - 1, IF remove THEN Black ELSE temp[y]>>]
    IN run_fills(run_moves(data, moves, 1), fills, 1)

\* Variant: the vacated column is filled with black whatever `remove` says
shift_right_always_removes(data, remove) ==
    LET moves == [i \in 1..(rows * (cols - 1)) |->
                     <<cols - 1 - ((i - 1) % (cols - 1)), (i - 1) \div (cols - 1),
                       cols - 2 - ((i - 1) % (cols - 1)), (i - 1) \div (cols - 1)>>]
        fills == [y \in 1..rows |-> <<0, y - 1, Black>>]
    IN run_fills(run_moves(data, moves, 1), fills, 1)

\* shift_right(remove): for y in range(rows): for x in reversed(range(1, cols)):
\* (x, y) <- (x - 1, y); then column 0 <- black or the saved column cols - 1
shift_right(data, remove) ==
    LET temp == [y \in 1..rows |-> matrix_get_color(data, cols - 1, y - 1)]
        moves == [i \in 1..(rows * (cols - 1)) |->
                     <<cols - 1 - ((i - 1) % (cols - 1)), (i - 1) \div (cols - 1),
                       cols - 2 - ((i - 1) % (cols - 1)), (i - 1) \div (cols - 1)>>]
        fills == [y \in 1..rows |-> <<0, y - 1, IF remove THEN Black ELSE temp[y]>>]
    IN run_fills(run_moves(data, moves, 1), fills, 1)

\* shift_down(remove): for y in reversed(range(1, rows)): for x in range(cols):
\* (x, y) <- (x, y - 1); then row 0 <- black or the saved row rows - 1
shift_down(data, remove) ==
    LET temp == [x \in 1..cols |-> matrix_get_color(data, x - 1, rows - 1)]
        moves == [i \in 1..((rows - 1) * cols) |->
                     <<(i - 1) % cols, rows - 1 - ((i - 1) \div cols),
                       (i - 1) % cols, rows - 2 - ((i - 1) \div cols)>>]
        fills == [x \in 1..cols |-> <<x - 1, 0, IF remove THEN Black ELSE temp[x]>>]
    IN run_fills(run_moves(data, moves, 1), fills, 1)

\* shift_up(remove): for x in range(cols): for y in range(rows - 1):
\* (x, y) <- (x, y + 1); then row rows - 1 <- black or the saved row 0
shift_up(data, remove) ==
    LET temp == [x \in 1..cols |-> matrix_get_color(data, x - 1, 0)]
        moves == [i \in 1..(cols * (rows - 1)) |->
                     <<(i - 1) \div (rows - 1), (i - 1) % (rows - 1),
                       (i - 1) \div (rows - 1), ((i - 1) % (rows - 1)) + 1>>]
        fills == [x \in 1..cols |-> <<x - 1, rows - 1, IF remove THEN Black ELSE temp[x]>>]
    IN run_fills(run_moves(data, moves, 1), fills, 1)

\* the last call on a matrix, with its arguments, the list it returned
\* (points) or the colour (ret), how it ended, and the history the shifts keep
NoMatrixCall ==
    [op |-> "none", x |-> 0, y |-> 0, x2 |-> 0, y2 |-> 0, rgb |-> Black, remap_values |-> FALSE,
     remove |-> FALSE, run |-> 0, origin |-> <<>>, dx |-> 0, dy |-> 0,
     points |-> <<>>, ret |-> Black, channel |-> 0, sends |-> <<>>, outcome |-> "return"]

\* no device in reach: the matrix object alone (bstick is None)
Detached ==
    /\ platform = "unix"
    /\ bus = [d \in Devs |-> [serial |-> "", status |-> "absent"]]
    /\ hstate = "new"
    /\ device = NoDevice
    /\ serial = None
    /\ serial0 = None
    /\ call = NoCall
    /\ FacadeInit
    /\ codec = CodecIdle
    /\ BlankStick

\* BlinkStickProMatrix(r_columns=cols, r_rows=rows): all columns on channel R,
\* the channel buffers as BlinkStickPro.__init__ leaves them, bstick None
OneChannel ==
    /\ columns = <<cols, 0, 0>>
    /\ pro_led_count = <<rows * cols, 0, 0>>
    /\ pro_data = <<[i \in 1..(rows * cols) |-> <<0, 0, 0>>], <<>>, <<>>>>
    /\ bstick = None

\* BlinkStickProMatrix(r_columns, r_rows, ..., max_rgb_value): rows is the
\* largest of the row counts, cols the sum of the column counts, the buffer
\* rows * cols times [0, 0, 0]
MatrixInit ==
    /\ Detached
    /\ rows \in 1..MaxRows
    /\ cols \in 1..MaxCols
    /\ rows * cols <= MaxPixels
    /\ matrix_data = [i \in 1..(rows * cols) |-> <<0, 0, 0>>]
    /\ matrix_max_rgb_value \in {100, 255}
    /\ OneChannel
    /\ mcall = [NoMatrixCall EXCEPT !.origin = matrix_data]

unchangedByMatrix ==
    <<backendVars, facadeVars, codec, inverse_hist, memVars, rows, cols, matrix_max_rgb_value,
      channelVars>>

\* set_color(x, y, r, g, b, remap_values); the list assignment raises
\* IndexError when the index is outside the list; `origin` keeps the buffer
\* as it was before the call
MatrixSetColor(x, y, rgb, remap_values) ==
    /\ \E position \in {list_position(coord_to_index(x, y), Len(matrix_data))} :
          /\ matrix_data' = IF position = 0 THEN matrix_data
                            ELSE matrix_set_color(matrix_data, x, y, rgb, remap_values)
          /\ mcall' = [NoMatrixCall EXCEPT !.op = "set_color", !.x = x, !.y = y, !.rgb = rgb,
                                           !.remap_values = remap_values, !.origin = matrix_data,
                                           !.outcome = IF position = 0 THEN "IndexError" ELSE "return"]
    /\ UNCHANGED unchangedByMatrix

\* get_color(x, y): the list read raises IndexError when the index is outside
\* the list
MatrixGetColor(x, y) ==
    /\ \E position \in {list_position(coord_to_index(x, y), Len(matrix_data))} :
          mcall' = [NoMatrixCall EXCEPT !.op = "get_color", !.x = x, !.y = y, !.origin = matrix_data,
                                       !.ret = IF position = 0 THEN Black
                                               ELSE matrix_get_color(matrix_data, x, y),
                                       !.outcome = IF position = 0 THEN "IndexError" ELSE "return"]
    /\ UNCHANGED <<matrix_data, unchangedByMatrix>>

ShiftOps == {"shift_left", "shift_right", "shift_down", "shift_up"}

\* the history of a shift: `run` counts the shifts of the same kind in a row,
\* up to rows + cols, from where on it stays; `origin` is the buffer that row
\* started from (remove) or that the wrap-around shifts in a row started from,
\* and (dx, dy) how far these have moved it since, columns to the left and
\* rows up
ShiftRecord(op, remove, ddx, ddy) ==
    LET same == mcall.op = op /\ mcall.remove = remove
        wrapping == mcall.op \in ShiftOps /\ ~mcall.remove /\ ~remove
    IN [NoMatrixCall EXCEPT
           !.op = op, !.remove = remove,
           !.run = IF same THEN Min(mcall.run + 1, rows + cols) ELSE 1,
           !.origin = IF same \/ wrapping THEN mcall.origin ELSE matrix_data,
           !.dx = IF remove THEN 0 ELSE ((IF wrapping THEN mcall.dx ELSE 0) + ddx) % cols,
           !.dy = IF remove THEN 0 ELSE ((IF wrapping THEN mcall.dy ELSE 0) + ddy) % rows]

ShiftLeft(remove) ==
    /\ matrix_data' = shift_left(matrix_data, remove)
    /\ mcall' = ShiftRecord("shift_left", remove, 1, 0)
    /\ UNCHANGED unchangedByMatrix

ShiftRight(remove) ==
    /\ matrix_data' = shift_right(matrix_data, remove)
    /\ mcall' = ShiftRecord("shift_right", remove, cols - 1, 0)
    /\ UNCHANGED unchangedByMatrix

ShiftDown(remove) ==
    /\ matrix_data' = shift_down(matrix_data, remove)
    /\ mcall' = ShiftRecord("shift_down", remove, 0, rows - 1)
    /\ UNCHANGED unchangedByMatrix

ShiftUp(remove) ==
    /\ matrix_data' = shift_up(matrix_data, remove)
    /\ mcall' = ShiftRecord("shift_up", remove, 0, 1)
    /\ UNCHANGED unchangedByMatrix

\* colours given to the matrix
MatrixColors == {Black, <<255, 128, 1>>}

MatrixNext ==
    \/ \E x \in 0..(cols - 1), y \in 0..(rows - 1), rgb \in MatrixColors :
          MatrixSetColor(x, y, rgb, TRUE)
    \/ \E remove \in BOOLEAN : ShiftLeft(remove)
    \/ \E remove \in BOOLEAN : ShiftRight(remove)
    \/ \E remove \in BOOLEAN : ShiftDown(remove)
    \/ \E remove \in BOOLEAN : ShiftUp(remove)

SpecMatrix == MatrixInit /\ [][MatrixNext]_vars

\* coordinates around the matrix: one column to either side, one row below,
\* and up to rows + 1 rows above, where the index leaves the list
AccessX == (-1)..cols
AccessY == (-(rows + 1))..rows

AccessNext ==
    \/ \E x \in AccessX, y \in AccessY, rgb \in MatrixColors : MatrixSetColor(x, y, rgb, TRUE)
    \/ \E x \in AccessX, y \in AccessY : MatrixGetColor(x, y)

SpecAccess == MatrixInit /\ [][AccessNext]_vars

----------------------------------------------------------------------------
(* BlinkStickProMatrix: line and clear *)

MaxLineRows == 4        \* largest number of rows a line is drawn on
MaxLineCols == 5        \* largest number of columns a line is drawn on

Abs(n) == IF n < 0 THEN -n ELSE n

\* list.reverse()
Reverse(s) == [i \in 1..Len(s) |-> s[Len(s) + 1 - i]]

\* the loop of line: for x in range(x, x2 + 1): set_color and append the
\* point, (y, x) when steep and (x, y) otherwise; error -= delta_y; when
\* error < 0: y += y_step and error += delta_x
RECURSIVE line_loop(_, _, _, _, _, _, _, _, _, _, _)
line_loop(data, points, x, x2, y, error, delta_x, delta_y, y_step, is_steep, rgb) ==
    IF x > x2
    THEN [data |-> data, points |-> points]
    ELSE LET px == IF is_steep THEN y ELSE x
             py == IF is_steep THEN x ELSE y
             stepped == error - delta_y < 0
         IN line_loop(matrix_set_color(data, px, py, rgb, TRUE), Append(points, <<px, py>>),
                      x + 1, x2,
                      IF stepped THEN y + y_step ELSE y,
                      IF stepped THEN error - delta_y + delta_x ELSE error - delta_y,
                      delta_x, delta_y, y_step, is_steep, rgb)

\* Variant: the loop starts one past the first point
line_skips_first_point(data, x1, y1, x2, y2, rgb) ==
    LET is_steep == Abs(y2 - y1) > Abs(x2 - x1)
        a1 == IF is_steep THEN y1 ELSE x1
        b1 == IF is_steep THEN x1 ELSE y1
        a2 == IF is_steep THEN y2 ELSE x2
        b2 == IF is_steep THEN x2 ELSE y2
        rev == a1 > a2
        sx1 == IF rev THEN a2 ELSE a1
        sy1 == IF rev THEN b2 ELSE b1
        sx2 == IF rev THEN a1 ELSE a2
        sy2 == IF rev THEN b1 ELSE b2
        delta_x == sx2 - sx1
        delta_y == Abs(sy2 - sy1)
        drawn == line_loop(data, <<>>, sx1 + 1, sx2, sy1, delta_x \div 2, delta_x, delta_y,
                           IF sy1 < sy2 THEN 1 ELSE -1, is_steep, rgb)
    IN [data |-> drawn.data, points |-> IF rev THEN Reverse(drawn.points) ELSE drawn.points]

\* Variant: the points are returned in the order they were drawn
line_never_reverses(data, x1, y1, x2, y2, rgb) ==
    LET is_steep == Abs(y2 - y1) > Abs(x2 - x1)
        a1 == IF is_steep THEN y1 ELSE x1
        b1 == IF is_steep THEN x1 ELSE y1
        a2 == IF is_steep THEN y2 ELSE x2
        b2 == IF is_steep THEN x2 ELSE y2
        rev == a1 > a2
        sx1 == IF rev THEN a2 ELSE a1
        sy1 == IF rev THEN b2 ELSE b1
        sx2 == IF rev THEN a1 ELSE a2
        sy2 == IF rev THEN b1 ELSE b2
        delta_x == sx2 - sx1
        delta_y == Abs(sy2 - sy1)
        drawn == line_loop(data, <<>>, sx1, sx2, sy1, delta_x \div 2, delta_x, delta_y,
                           IF sy1 < sy2 THEN 1 ELSE -1, is_steep, rgb)
    IN [data |-> drawn.data, points |-> drawn.points]

\* line(x1, y1, x2, y2, r, g, b) on the buffer `data`: when steep, x and y
\* of both ends are swapped (a, b); when then x1 > x2 the ends are swapped
\* (sx, sy) and rev is set; error = int(delta_x / 2); the loop; the points
\* reversed when rev. The result is the buffer and the returned points.
line(data, x1, y1, x2, y2, rgb) ==
    LET is_steep == Abs(y2 - y1) > Abs(x2 - x1)
        a1 == IF is_steep THEN y1 ELSE x1
        b1 == IF is_steep THEN x1 ELSE y1
        a2 == IF is_steep THEN y2 ELSE x2
        b2 == IF is_steep THEN x2 ELSE y2
        rev == a1 > a2
        sx1 == IF rev THEN a2 ELSE a1
        sy1 == IF rev THEN b2 ELSE b1
        sx2 == IF rev THEN a1 ELSE a2
        sy2 == IF rev THEN b1 ELSE b2
        delta_x == sx2 - sx1
        delta_y == Abs(sy2 - sy1)
        drawn == line_loop(data, <<>>, sx1, sx2, sy1, delta_x \div 2, delta_x, delta_y,
                           IF sy1 < sy2 THEN 1 ELSE -1, is_steep, rgb)
    IN [data |-> drawn.data, points |-> IF rev THEN Reverse(drawn.points) ELSE drawn.points]

\* a matrix to draw on, nothing drawn yet
LineInit ==
    /\ Detached
    /\ rows \in 1..MaxLineRows
    /\ cols \in 1..MaxLineCols
    /\ matrix_data = [i \in 1..(rows * cols) |-> <<0, 0, 0>>]
    /\ matrix_max_rgb_value \in {100, 255}
    /\ OneChannel
    /\ mcall = [NoMatrixCall EXCEPT !.origin = matrix_data]

\* set_color(x, y, r, g, b) of one pixel before a line is drawn
DrawPixel(x, y, rgb) ==
    /\ mcall.op \in {"none", "clear"}
    /\ MatrixSetColor(x, y, rgb, TRUE)

\* line(x1, y1, x2, y2, r, g, b), drawn over a cleared matrix or over the one
\* pixel set since
MatrixLine(x1, y1, x2, y2, rgb) ==
    /\ mcall.op # "line"
    /\ \E drawn \in {line(matrix_data, x1, y1, x2, y2, rgb)} :
          /\ matrix_data' = drawn.data
          /\ mcall' = [NoMatrixCall EXCEPT !.op = "line", !.x = x1, !.y = y1, !.x2 = x2, !.y2 = y2,
                                           !.rgb = rgb, !.points = drawn.points,
                                           !.origin = matrix_data]
    /\ UNCHANGED unchangedByMatrix

\* clear(): set_color(x, y, 0, 0, 0) for every y and x; the record keeps the
\* cleared buffer, from which the next drawing starts
MatrixClear ==
    /\ matrix_data' = run_fills(matrix_data,
                                [i \in 1..(rows * cols) |-> <<(i - 1) % cols, (i - 1) \div cols, Black>>], 1)
    /\ mcall' = [NoMatrixCall EXCEPT !.op = "clear", !.origin = matrix_data']
    /\ UNCHANGED unchangedByMatrix

\* the colour lines are drawn with
LineColors == {<<255, 128, 1>>}

LineNext ==
    \/ \E x \in 0..(cols - 1), y \in 0..(rows - 1) : DrawPixel(x, y, <<9, 9, 9>>)
    \/ \E x1 \in 0..(cols - 1), y1 \in 0..(rows - 1), x2 \in 0..(cols - 1), y2 \in 0..(rows - 1),
          rgb \in LineColors : MatrixLine(x1, y1, x2, y2, rgb)
    \/ MatrixClear

SpecLine == LineInit /\ [][LineNext]_vars

----------------------------------------------------------------------------
(* BlinkStickPro and BlinkStickProMatrix: channel buffers and frame sends *)

\* the object is a BlinkStickProMatrix, whose set_color, clear and send_data
\* override those of BlinkStickPro
IsMatrix == rows > 0

\* BlinkStickPro.set_color(channel, index, r, g, b, remap_values) on the
\* channel buffers `d`: data[channel][index] = [g, r, b]
pro_set_color(d, channel, index, rgb, remap_values) ==
    LET c == IF remap_values THEN remap_rgb_value(rgb, matrix_max_rgb_value) ELSE rgb
    IN [d EXCEPT ![channel + 1][list_position(index, Len(d[channel + 1]))] = <<c[2], c[1], c[3]>>]

\* BlinkStickPro.clear(): set_color(channel, x, 0, 0, 0) for x in
\* range(led_count) of each channel, the buffers being that long
pro_clear(d) ==
    [ch \in 1..3 |-> [i \in 1..Len(d[ch]) |->
                         IF i <= pro_led_count[ch] THEN <<0, 0, 0>> ELSE d[ch][i]]]

\* packet_data = [item for sublist in self.data[channel] for item in sublist]
Flatten(buf) == [i \in 1..(3 * Len(buf)) |-> buf[((i - 1) \div 3) + 1][((i - 1) % 3) + 1]]

\* bstick.set_led_data(channel, data) on the device object `dev`: the
\* transfer asked of the backend and whether the call raised
set_led_data_on(dev, channel, packet, io) ==
    LET rm == determine_report_id(Len(packet))
        e == backend_write_on(dev, io)
    IN [dev |-> e.dev,
        transfer |-> Transfer(REQ_WRITE, 9, rm[1], 0, led_report(channel, packet, rm[2])),
        raised |-> e.outcome = "raise"]

\* the set_led_data call of send_data and what it left: `c` is the call's
\* result, `sends` lists the set_led_data calls made
after_set_led_data(st, channel, packet_data, c) ==
    [dev |-> c.dev, data |-> st.data,
     sends |-> Append(st.sends, [channel |-> channel, packet_data |-> packet_data,
                                 transfer |-> c.transfer, failed |-> c.raised]),
     raised |-> c.raised]

\* self.bstick.set_led_data(channel, packet_data) on st = [dev, data, sends, raised]
try_set_led_data(st, channel, packet_data, io) ==
    after_set_led_data(st, channel, packet_data,
                       set_led_data_on(st.dev, channel, packet_data, io))

\* Variant: the exception of set_led_data is raised again
pro_send_data_reraises(st, channel, io) ==
    IF bstick = None
    THEN st
    ELSE try_set_led_data(st, channel, Flatten(st.data[channel + 1]), io)

\* BlinkStickPro.send_data(channel) on st = [dev, data, sends, raised]:
\* nothing without a bstick; else set_led_data in a try block whose
\* `except Exception` clause prints the exception, so that none leaves the
\* call
pro_send_data(st, channel, io) ==
    IF bstick = None
    THEN st
    ELSE [try_set_led_data(st, channel, Flatten(st.data[channel + 1]), io) EXCEPT !.raised = FALSE]

\* start_col and end_col of a channel in BlinkStickProMatrix.send_data
start_col(channel) ==
    IF channel = 0 THEN 0
    ELSE IF channel = 1 THEN columns[1]
    ELSE IF channel = 2 THEN columns[1] + columns[2]
    ELSE 0

end_col(channel) ==
    IF channel = 0 THEN columns[1]
    ELSE IF channel = 1 THEN columns[1] + columns[2]
    ELSE IF channel = 2 THEN columns[1] + columns[2] + columns[3]
    ELSE 0

\* Variant: the slice starts one item early
Slice_one_early(list, start, end) ==
    [i \in 1..(Min(end, Len(list)) - Min(start, Len(list))) |-> list[Max(start + i - 1, 1)]]

\* matrix_data[start:end] as Python slices a list
Slice(list, start, end) ==
    [i \in 1..(Min(end, Len(list)) - Min(start, Len(list))) |-> list[start + i]]

\* data[channel] = []; for y in range(0, rows): data[channel].extend(
\* matrix_data[y * cols + start_col : y * cols + end_col])
RECURSIVE matrix_frame(_, _, _)
matrix_frame(channel, y, acc) ==
    IF y >= rows
    THEN acc
    ELSE matrix_frame(channel, y + 1,
                      acc \o Slice(matrix_data, y * cols + start_col(channel),
                                   y * cols + end_col(channel)))

\* BlinkStickProMatrix.send_data(channel): the channel buffer is rebuilt from
\* the matrix, then super(BlinkStickProMatrix, self).send_data(channel)
matrix_send_data(st, channel, io) ==
    pro_send_data([st EXCEPT !.data[channel + 1] = matrix_frame(channel, 0, <<>>)], channel, io)

\* self.send_data(channel)
self_send_data(st, channel, io) ==
    IF IsMatrix THEN matrix_send_data(st, channel, io) ELSE pro_send_data(st, channel, io)

\* the transport during send_data_all: every transfer goes through, but for
\* the one of channel `at` - 1 (0: none), which meets `io`
SendFaults == {[at |-> 0, io |-> OkIo]} \cup [at : 1..3, io : FailingIo]
IoOf(fault, channel) == IF fault.at = channel + 1 THEN fault.io ELSE OkIo

\* if led_count > 0: self.send_data(channel), reached unless an exception
\* has ended the call
send_data_if_leds(st, channel, fault) ==
    IF ~st.raised /\ pro_led_count[channel + 1] > 0
    THEN self_send_data(st, channel, IoOf(fault, channel))
    ELSE st

\* send_data_all(): if r_led_count > 0: send_data(0); likewise g and b
send_data_all(st, fault) ==
    send_data_if_leds(send_data_if_leds(send_data_if_leds(st, 0, fault), 1, fault), 2, fault)

\* the state a frame operation starts from
Before == [dev |-> device, data |-> pro_data, sends |-> <<>>, raised |-> FALSE]

HowEnded(st) == IF st.raised THEN "raise" ELSE "return"

unchangedBySend ==
    <<platform, bus, hstate, serial, serial0, call, facadeVars, codec, inverse_hist, memVars,
      rows, cols, matrix_max_rgb_value, pro_led_count, columns, bstick>>

\* BlinkStickPro.set_color(channel, index, r, g, b); the list assignment
\* raises IndexError when the index is outside the channel buffer
ProSetColor(channel, index, rgb) ==
    /\ ~IsMatrix
    /\ \E position \in {list_position(index, Len(pro_data[channel + 1]))} :
          /\ pro_data' = IF position = 0 THEN pro_data
                         ELSE pro_set_color(pro_data, channel, index, rgb, TRUE)
          /\ mcall' = [NoMatrixCall EXCEPT !.op = "set_color", !.channel = channel, !.x = index,
                                           !.rgb = rgb, !.remap_values = TRUE,
                                           !.outcome = IF position = 0 THEN "IndexError" ELSE "return"]
    /\ UNCHANGED <<device, matrix_data, unchangedBySend>>

\* BlinkStickPro.clear()
ProClear ==
    /\ ~IsMatrix
    /\ pro_data' = pro_clear(pro_data)
    /\ mcall' = [NoMatrixCall EXCEPT !.op = "clear"]
    /\ UNCHANGED <<device, matrix_data, unchangedBySend>>

\* send_data(channel), of BlinkStickPro or of BlinkStickProMatrix
SendData(channel, io) ==
    /\ \E st \in {self_send_data(Before, channel, io)} :
          /\ device' = st.dev
          /\ pro_data' = st.data
          /\ mcall' = [NoMatrixCall EXCEPT !.op = "send_data", !.channel = channel,
                                           !.origin = matrix_data, !.sends = st.sends,
                                           !.outcome = HowEnded(st)]
    /\ UNCHANGED <<matrix_data, unchangedBySend>>

\* send_data_all()
SendDataAll(fault) ==
    /\ \E st \in {send_data_all(Before, fault)} :
          /\ device' = st.dev
          /\ pro_data' = st.data
          /\ mcall' = [NoMatrixCall EXCEPT !.op = "send_data_all", !.origin = matrix_data,
                                           !.sends = st.sends, !.outcome = HowEnded(st)]
    /\ UNCHANGED <<matrix_data, unchangedBySend>>

\* off(): self.clear(); self.send_data_all()
Off(fault) ==
    /\ matrix_data' = IF IsMatrix THEN [i \in 1..Len(matrix_data) |-> <<0, 0, 0>>] ELSE matrix_data
    /\ \E st \in {send_data_all([Before EXCEPT !.data = IF IsMatrix THEN pro_data
                                                       ELSE pro_clear(pro_data)], fault)} :
          /\ device' = st.dev
          /\ pro_data' = st.data
          /\ mcall' = [NoMatrixCall EXCEPT !.op = "off", !.origin = matrix_data', !.sends = st.sends,
                                           !.outcome = HowEnded(st)]
    /\ UNCHANGED unchangedBySend

\* BlinkStickPro(r_led_count, g_led_count, b_led_count)
LinearLayouts == {<<2, 0, 1>>, <<0, 0, 0>>}

\* BlinkStickProMatrix(r_columns, r_rows, g_columns, g_rows, b_columns, b_rows)
MatrixLayouts ==
    { [columns |-> <<1, 1, 0>>, chan_rows |-> <<2, 1, 0>>],
      [columns |-> <<2, 1, 0>>, chan_rows |-> <<1, 1, 0>>],
      [columns |-> <<1, 1, 1>>, chan_rows |-> <<1, 1, 1>>] }

\* a frame buffer after construction (self.data: led_count times [0, 0, 0]
\* per channel; bstick None), and after connect() when a stick was found
FrameInit ==
    /\ \/ Detached /\ bstick = None
       \/ /\ ReadyInit
          /\ bus = [d \in Devs |-> [serial |-> "BS1",
                                    status |-> IF d = 1 THEN "readable" ELSE "absent"]]
          /\ codec = CodecIdle
          /\ bstick = "BlinkStick"
    /\ \/ /\ pro_led_count \in LinearLayouts
          /\ columns = <<0, 0, 0>>
          /\ rows = 0
          /\ cols = 0
       \/ \E m \in MatrixLayouts :
             /\ columns = m.columns
             /\ pro_led_count = [ch \in 1..3 |-> m.columns[ch] * m.chan_rows[ch]]
             /\ rows = Max(m.chan_rows[1], Max(m.chan_rows[2], m.chan_rows[3]))
             /\ cols = m.columns[1] + m.columns[2] + m.columns[3]
    /\ pro_data = [ch \in 1..3 |-> [i \in 1..pro_led_count[ch] |-> <<0, 0, 0>>]]
    /\ matrix_data = [i \in 1..(rows * cols) |-> <<0, 0, 0>>]
    /\ matrix_max_rgb_value = 255
    /\ mcall = [NoMatrixCall EXCEPT !.origin = matrix_data]

\* the colour frames are drawn with
FrameColors == {<<255, 128, 1>>}

FrameNext ==
    \/ \E channel \in Channels, index \in 0..2, rgb \in FrameColors : ProSetColor(channel, index, rgb)
    \/ ProClear
    \/ \E x \in 0..(cols - 1), y \in 0..(rows - 1), rgb \in FrameColors :
          IsMatrix /\ MatrixSetColor(x, y, rgb, TRUE)
    \/ IsMatrix /\ MatrixClear
    \/ \E channel \in Channels, io \in {OkIo} \cup FailingIo : SendData(channel, io)
    \/ \E fault \in SendFaults : SendDataAll(fault)
    \/ \E fault \in SendFaults : Off(fault)

SpecFrame == FrameInit /\ [][FrameNext]_vars

----------------------------------------------------------------------------
(* BlinkStick: get_mode and get_led_count *)

\* Variant: one byte is enough of a response
byte_1_of_any(device_bytes) ==
    IF Len(device_bytes) >= 1 THEN device_bytes[Min(2, Len(device_bytes))] ELSE -1

\* if len(device_bytes) >= 2: return device_bytes[1]; else: return -1
byte_1(device_bytes) ==
    IF Len(device_bytes) >= 2 THEN device_bytes[2] ELSE -1

\* the facade's own state
FacadeState == <<error_reporting, inverse, max_rgb_value>>

\* a getter that reads two bytes of the report wValue; device_bytes is what
\* the stick answers when the transfer goes through
ReadByte1(op, wValue, device_bytes, io) ==
    \E e \in {backend_control_transfer(REQ_READ, io.first, io.retry, io.openOk)} :
       /\ device' = e.dev
       /\ fcall' = [op |-> op,
                    sent |-> <<Transfer(REQ_READ, 1, wValue, 0, 2)>>,
                    device_bytes |-> IF e.outcome = "raise" THEN <<>> ELSE device_bytes,
                    before |-> FacadeState,
                    outcome |-> e.outcome, exc |-> e.exc,
                    ret |-> IF e.outcome = "raise" THEN 0 ELSE byte_1(device_bytes)]
       /\ UNCHANGED <<platform, bus, hstate, serial, serial0, call,
                      error_reporting, inverse, max_rgb_value, codec, inverse_hist,
                      memVars, frameVars>>

\* get_mode(): control_transfer(0x80 | 0x20, 0x1, 0x0004, 0, 2)
GetMode(device_bytes, io) == ReadByte1("get_mode", 4, device_bytes, io)

\* get_led_count(): control_transfer(0x80 | 0x20, 0x1, 0x81, 0, 2)
GetLedCount(device_bytes, io) == ReadByte1("get_led_count", 129, device_bytes, io)

\* answers of the stick: none, one, two and three bytes
Responses == {<<>>, <<4>>, <<4, 2>>, <<129, 64, 7>>}

ModeNext ==
    \/ \E device_bytes \in Responses, io \in TransportInputs : GetMode(device_bytes, io)
    \/ \E device_bytes \in Responses, io \in TransportInputs : GetLedCount(device_bytes, io)
    \/ \E value \in InverseArgs : SetInverse(value)
    \/ \E value \in MaxRgbArgs : SetMaxRgbValue(value)

SpecMode == CodecInit /\ [][ModeNext]_vars

----------------------------------------------------------------------------
(* BlinkStick: colours read back from a stick that keeps what it receives *)

\* what LED i of channel 0 shows before anything was written to it
PowerOn(i) == <<(7 * i + 1) % 256, (11 * i + 2) % 256, (13 * i + 3) % 256>>

\* the (r, g, b) bytes the stick holds for LED i of channel 0
StickLed(i) == IF i \in DOMAIN led_mem THEN led_mem[i].bytes ELSE PowerOn(i)

\* the stick's part of a set_color step: a report that reached it, [0, r, g, b]
\* of report 1 or [5, channel, index, r, g, b] of report 5, is kept for its
\* LED (channel 0 is the one read back); `written` and `inverse` record the
\* colour set_color resolved and the mode it was sent in
StickStores(io) ==
    led_mem' =
        IF fcall'.channel = 0 /\ Delivered(io, fcall'.backend)
        THEN LET report == fcall'.sent[1].data
                 n == Len(report)
                 a == fcall'.args
                 entry == [bytes |-> <<report[n - 2], report[n - 1], report[n]>>,
                           written |-> determine_rgb(a.red, a.green, a.blue, a.name, a.hex,
                                                     fcall'.rnd, max_rgb_value),
                           inverse |-> inverse]
             IN [i \in (DOMAIN led_mem) \cup {fcall'.index} |->
                    IF i = fcall'.index THEN entry ELSE led_mem[i]]
        ELSE led_mem

\* the stick's answer to a read of wLength bytes: report 1 is [1, r, g, b] of
\* LED 0 and zeros; an LED data report is [report_id, 0] and the LEDs of
\* channel 0 in wire order, (g, r, b) each
StickAnswer(t) ==
    IF t.wValue = 1
    THEN [i \in 1..t.data |-> IF i = 1 THEN 1 ELSE IF i <= 4 THEN StickLed(0)[i - 1] ELSE 0]
    ELSE [i \in 1..t.data |->
             IF i = 1 THEN t.wValue
             ELSE IF i = 2 THEN 0
             ELSE LET led == StickLed((i - 3) \div 3)
                  IN <<led[2], led[1], led[3]>>[((i - 3) % 3) + 1]]

\* get_led_data(count), of the answer device_bytes: device_bytes[2 : 2 + count * 3]
get_led_data(count, device_bytes) == Slice(device_bytes, 2, 2 + count * 3)

\* Variant: the bytes are returned in wire order
led_data_rgb_in_wire_order(index, data) ==
    IF Len(data) < index * 3 + 3
    THEN [outcome |-> "IndexError", ret |-> <<0, 0, 0>>]
    ELSE [outcome |-> "return", ret |-> <<data[index * 3 + 1], data[index * 3 + 2], data[index * 3 + 3]>>]

\* data[index * 3 + 1], data[index * 3], data[index * 3 + 2]; a list index
\* past the end raises IndexError
led_data_rgb(index, data) ==
    IF Len(data) < index * 3 + 3
    THEN [outcome |-> "IndexError", ret |-> <<0, 0, 0>>]
    ELSE [outcome |-> "return", ret |-> <<data[index * 3 + 2], data[index * 3 + 1], data[index * 3 + 3]>>]

\* _get_color_rgb(index) decoding the answer device_bytes
decode_color(index, device_bytes) ==
    IF index = 0
    THEN [outcome |-> "return", data |-> <<>>,
          ret |-> IF inverse
                  THEN <<255 - device_bytes[2], 255 - device_bytes[3], 255 - device_bytes[4]>>
                  ELSE <<device_bytes[2], device_bytes[3], device_bytes[4]>>]
    ELSE LET data == get_led_data((index + 1) * 3, device_bytes)
         IN [outcome |-> led_data_rgb(index, data).outcome, data |-> data,
             ret |-> led_data_rgb(index, data).ret]

unchangedByRead ==
    <<platform, bus, hstate, serial, serial0, call, error_reporting, inverse, max_rgb_value,
      codec, inverse_hist, memVars, frameVars>>

\* _get_color_rgb(index), answered by the stick
GetColorRgb(index, io) ==
    \E e \in {backend_control_transfer(REQ_READ, io.first, io.retry, io.openOk)},
       device_bytes \in {StickAnswer(color_read(index))} :
       /\ device' = e.dev
       /\ fcall' = IF e.outcome = "raise"
                   THEN [op |-> "_get_color_rgb", index |-> index, count |-> 0,
                         sent |-> <<color_read(index)>>, device_bytes |-> <<>>, data |-> <<>>,
                         ret |-> <<0, 0, 0>>, outcome |-> "raise", exc |-> e.exc]
                   ELSE [op |-> "_get_color_rgb", index |-> index, count |-> 0,
                         sent |-> <<color_read(index)>>, device_bytes |-> device_bytes,
                         data |-> decode_color(index, device_bytes).data,
                         ret |-> decode_color(index, device_bytes).ret,
                         outcome |-> decode_color(index, device_bytes).outcome, exc |-> NoExc]
       /\ UNCHANGED unchangedByRead

\* the read get_led_data(count) asks for
led_data_read(count) ==
    Transfer(REQ_READ, 1, determine_report_id(count)[1], 0, determine_report_id(count)[2] * 3 + 2)

\* get_led_data(count), answered by the stick
GetLedData(count, io) ==
    \E e \in {backend_control_transfer(REQ_READ, io.first, io.retry, io.openOk)},
       device_bytes \in {StickAnswer(led_data_read(count))} :
       /\ device' = e.dev
       /\ fcall' = IF e.outcome = "raise"
                   THEN [op |-> "get_led_data", index |-> 0, count |-> count,
                         sent |-> <<led_data_read(count)>>, device_bytes |-> <<>>, data |-> <<>>,
                         ret |-> <<0, 0, 0>>, outcome |-> "raise", exc |-> e.exc]
                   ELSE [op |-> "get_led_data", index |-> 0, count |-> count,
                         sent |-> <<led_data_read(count)>>, device_bytes |-> device_bytes,
                         data |-> get_led_data(count, device_bytes),
                         ret |-> <<0, 0, 0>>, outcome |-> "return", exc |-> NoExc]
       /\ UNCHANGED unchangedByRead

\* LEDs of channel 0 written to, and LEDs read: both sides of every boundary
\* of the report table, and one past the last LED
WrittenLeds == {0, 1, 63}
ReadLeds == {0, 1, 7, 8, 15, 16, 31, 32, 63, 64}
StickColorArgs == {[NoColor EXCEPT !.red = 255, !.green = 128, !.blue = 1]}

ReadCounts == {1, 8, 24, 25, 64, 193}
StickIo == {OkIo, [first |-> Fail, retry |-> Fail, openOk |-> TRUE]}

\* a facade whose stick is plugged in, as the device object it was found as
StickInit ==
    /\ CodecInit
    /\ bus[1].status = "readable"

StickNext ==
    \/ \E index \in WrittenLeds, a \in StickColorArgs, io \in StickIo :
          /\ SetColor(0, index, a, <<0, 255, 7>>, io)
          /\ StickStores(io)
    \/ \E value \in {Bool(TRUE), Bool(FALSE)} : SetInverse(value)
    \/ \E index \in WrittenLeds, io \in StickIo :
          GetColor(index, "rgb", None, StickLed(index), io)
    \/ \E index \in ReadLeds, io \in StickIo : GetColorRgb(index, io)
    \/ \E count \in ReadCounts, io \in StickIo : GetLedData(count, io)

SpecStick == StickInit /\ [][StickNext]_vars

----------------------------------------------------------------------------
(* Device handle: transfer with reconnect *)

IsTransfer == call.op = "control_transfer"

\* the first transfer failed, the enumeration matched a device, which was
\* re-opened, and the transport lets the retried transfer through
ReconnectCase ==
    /\ IsTransfer
    /\ call.first = Fail
    /\ call.found # NoDevice
    /\ call.openOk

C2_ReconnectExhaustion ==
    (IsTransfer /\ call.first = Fail /\ call.enums = 1 /\ call.found = NoDevice) =>
        /\ call.outcome = "raise"
        /\ call.exc.type = "BlinkStickException"
        /\ call.exc.msg = "Could not communicate"
        /\ call.exc.serial = serial0
        /\ serial0 \in DevSerials \ {""}
        /\ call.attempts = 1

C2_Witness ==
    /\ IsTransfer
    /\ call.first = Fail
    /\ call.enums = 1
    /\ call.found = NoDevice
    /\ call.exc.serial = "BS2"
    /\ \E d \in Devs : bus[d].status = "unreadable" /\ bus[d].serial = "BS2"

\* C3 (as claimed): when the first transfer fails, the rebind succeeds and the
\* retried transfer fails too, control_transfer raises the same "Could not
\* communicate" exception with the cached serial.
C3_RetryFailureIsCommunicationLost ==
    (ReconnectCase /\ call.retry = Fail) =>
        /\ call.outcome = "raise"
        /\ call.exc.type = "BlinkStickException"
        /\ call.exc.msg = "Could not communicate"
        /\ call.exc.serial = serial0

\* C4: a control_transfer call attempts the transfer at most twice and
\* enumerates at most once; a second attempt follows exactly one enumeration,
\* a failed retry ends the call, and a call whose first attempt succeeds
\* enumerates nothing and keeps the binding.
C4_AtMostOneReconnect ==
    IsTransfer =>
        /\ call.attempts <= 2
        /\ call.enums <= 1
        /\ call.attempts = 2 => call.enums = 1
        /\ (call.devBefore # NoDevice /\ call.first # Fail) =>
               /\ call.attempts = 1
               /\ call.enums = 0
               /\ call.dev = call.devBefore
               /\ device = call.devBefore

C4_Witness ==
    /\ ReconnectCase
    /\ call.retry = Fail
    /\ call.attempts = 2
    /\ call.enums = 1

\* a transfer or descriptor read failed on a handle without a cached serial
NoSerialFailure ==
    /\ call.op # "none"
    /\ call.first = Fail
    /\ Falsy(call.serBefore)

\* C5 (as claimed): a failure on a handle without a cached serial raises at
\* once, without enumeration or retry, an error of the library that is not the
\* "Could not communicate" error of a lost device.
C5_DeviceUnavailableIsDistinct ==
    NoSerialFailure =>
        /\ call.outcome = "raise"
        /\ call.attempts = 1
        /\ call.enums = 0
        /\ call.exc.type = "BlinkStickException"
        /\ call.exc.msg # "Could not communicate"

\* C6 (as claimed): every failing I/O operation of either backend on a handle
\* with a cached serial enumerates by that serial, retries once after a rebind
\* and raises "Could not communicate" when nothing matches.
C6_ReconnectIsUniform ==
    (call.op # "none" /\ call.first = Fail /\ ~Falsy(call.serBefore)) =>
        /\ call.enums = 1
        /\ (call.found # NoDevice /\ call.openOk) => call.attempts = 2
        /\ call.found = NoDevice =>
               (call.outcome = "raise" /\ call.exc.msg = "Could not communicate")

----------------------------------------------------------------------------
(* Protocol codec: report selection and LED data frames *)

\* the report table of the specification
ReportTable(L) ==
    CASE L <= 24 -> <<6, 8>>
      [] L > 24 /\ L <= 48 -> <<7, 16>>
      [] L > 48 /\ L <= 96 -> <<8, 32>>
      [] OTHER -> <<9, 64>>

\* C7: _determine_report_id(L) is (6, 8) up to 24, (7, 16) up to 48, (8, 32)
\* up to 96 and (9, 64) above, also above 192; of two evaluations the one with
\* the larger L has the larger or equal report id and max_leds.
C7_ReportIdSelection ==
    [][codec'.op = "_determine_report_id" =>
          /\ <<codec'.report_id, codec'.max_leds>> = ReportTable(codec'.led_count)
          /\ (codec.op = "_determine_report_id" /\ codec.led_count <= codec'.led_count) =>
                 /\ codec.report_id <= codec'.report_id
                 /\ codec.max_leds <= codec'.max_leds]_vars

C7_Witness ==
    /\ codec.op = "_determine_report_id"
    /\ codec.led_count = 193
    /\ codec.report_id = 9
    /\ codec.max_leds = 64

\* the one transfer set_led_data asked of the backend
LedTransfer == codec.sent[1]

\* C8 (as claimed): the payload of set_led_data has 2 + max_leds*3 bytes and
\* holds 0, the channel, then every data byte in order, then zeros, for data
\* of any length.
C8_PayloadHoldsAllData ==
    codec.op = "set_led_data" =>
        /\ Len(codec.sent) = 1
        /\ LedTransfer.wValue = ReportTable(Len(codec.data))[1]
        /\ Len(LedTransfer.data) = 2 + ReportTable(Len(codec.data))[2] * 3
        /\ LedTransfer.data[1] = 0
        /\ LedTransfer.data[2] = codec.channel
        /\ \A i \in 1..Len(codec.data) :
               /\ 2 + i <= Len(LedTransfer.data)
               /\ LedTransfer.data[2 + i] = codec.data[i]
        /\ \A i \in (Len(codec.data) + 1)..(Len(LedTransfer.data) - 2) :
               LedTransfer.data[2 + i] = 0

\* C8 (amended): set_led_data issues one write transfer (0x20, 0x9) whose
\* report id comes from the table for len(data) and whose payload has
\* 2 + max_leds*3 bytes: 0, the channel, then the first max_leds*3 data bytes
\* in order, padded with zeros; the data bytes after the first 192 are not sent.
C8_PayloadHoldsFirstBytes ==
    codec.op = "set_led_data" =>
        LET max_leds == ReportTable(Len(codec.data))[2] IN
        /\ Len(codec.sent) = 1
        /\ LedTransfer.bmRequestType = REQ_WRITE
        /\ LedTransfer.bRequest = 9
        /\ LedTransfer.wIndex = 0
        /\ LedTransfer.wValue = ReportTable(Len(codec.data))[1]
        /\ Len(LedTransfer.data) = 2 + max_leds * 3
        /\ LedTransfer.data[1] = 0
        /\ LedTransfer.data[2] = codec.channel
        /\ \A i \in 1..(max_leds * 3) :
               LedTransfer.data[2 + i] = IF i <= Len(codec.data) THEN codec.data[i] ELSE 0

C8_Witness ==
    /\ codec.op = "set_led_data"
    /\ Len(codec.data) = 193
    /\ Len(LedTransfer.data) = 194
    /\ LedTransfer.data[194] = codec.data[192]

----------------------------------------------------------------------------
(* BlinkStick.set_color *)

\* While the last facade operation is a set_color, the flags are those it ran
\* with: every operation that changes a flag replaces the record.
LastSetColor == fcall.op = "set_color"

\* the components set_color has to send: resolved and remapped, then inverted
\* in inverse mode
ExpectedRgb ==
    LET rgb == determine_rgb(fcall.args.red, fcall.args.green, fcall.args.blue,
                             fcall.args.name, fcall.args.hex, fcall.rnd, max_rgb_value)
    IN [i \in 1..3 |-> IF inverse THEN 255 - rgb[i] ELSE rgb[i]]

\* C9: set_color asks the backend for exactly one write transfer (0x20, 0x9):
\* report 1 with [0, r, g, b] when channel = 0 and index = 0, else report 5
\* with [5, channel, index, r, g, b], r, g, b being the resolved, remapped and
\* (in inverse mode) inverted components.
C9_SetColorEncoding ==
    LastSetColor =>
        /\ Len(fcall.sent) = 1
        /\ fcall.sent[1].bmRequestType = REQ_WRITE
        /\ fcall.sent[1].bRequest = 9
        /\ fcall.sent[1].wIndex = 0
        /\ IF fcall.channel = 0 /\ fcall.index = 0
           THEN /\ fcall.sent[1].wValue = 1
                /\ fcall.sent[1].data = <<0>> \o ExpectedRgb
           ELSE /\ fcall.sent[1].wValue = 5
                /\ fcall.sent[1].data = <<5, fcall.channel, fcall.index>> \o ExpectedRgb

C9_Witness ==
    /\ LastSetColor
    /\ inverse
    /\ max_rgb_value = 100
    /\ fcall.args.red = 255 /\ fcall.args.green = 128 /\ fcall.args.blue = 1
    /\ fcall.sent[1].wValue = 5
    /\ fcall.sent[1].data = <<5, 2, 63, 155, 205, 255>>

\* C10: with error reporting off set_color returns normally whatever the
\* backend transfer did, also when it raised after a failed reconnect; with
\* error reporting on it raises what the backend transfer raised; the flag is
\* the last value given to set_error_reporting.
C10_ErrorReporting ==
    /\ fcall.op = "set_error_reporting" => error_reporting = fcall.value
    /\ LastSetColor =>
          /\ ~error_reporting => (fcall.outcome = "return" /\ fcall.exc = NoExc)
          /\ (error_reporting /\ fcall.backend.outcome = "raise") =>
                 (fcall.outcome = "raise" /\ fcall.exc = fcall.backend.exc)
          /\ fcall.backend.outcome = "return" => fcall.outcome = "return"

C10_Witness ==
    /\ LastSetColor
    /\ ~error_reporting
    /\ fcall.backend.outcome = "raise"
    /\ fcall.backend.enums = 1
    /\ fcall.backend.found = NoDevice
    /\ fcall.backend.exc.msg = "Could not communicate"
    /\ fcall.outcome = "return"

----------------------------------------------------------------------------
(* BlinkStick: colour resolution *)

\* the r, g, b components of the payload of the last set_color, inversion undone
SentRgb ==
    LET data == fcall.sent[1].data
        n == Len(data)
    IN [i \in 1..3 |-> IF inverse THEN 255 - data[n - 3 + i] ELSE data[n - 3 + i]]

\* the colour the arguments of the last set_color stand for: the name alone
\* when one is given, else the hex string, else the components; black when
\* the name or hex string chosen does not parse
ChosenColour ==
    LET a == fcall.args
    IN IF Given(a.name)
       THEN IF a.name = "random" THEN fcall.rnd
            ELSE IF name_to_rgb(a.name).raised THEN <<0, 0, 0>> ELSE name_to_rgb(a.name).rgb
       ELSE IF Given(a.hex)
            THEN IF hex_to_rgb(a.hex).raised THEN <<0, 0, 0>> ELSE hex_to_rgb(a.hex).rgb
            ELSE <<a.red, a.green, a.blue>>

\* C11: a given name alone determines the colour, else a given hex string,
\* else the red/green/blue components; a chosen name or hex string that does
\* not parse resolves to black and raises nothing, whatever hex string or
\* components came with it. The colour sent is the chosen one, remapped.
C11_ColourResolution ==
    LastSetColor =>
        /\ SentRgb = [i \in 1..3 |-> remap_color(ChosenColour[i], max_rgb_value)]
        /\ fcall.outcome = "raise" => fcall.exc = fcall.backend.exc

\* an unknown name next to a valid hex string and a non-zero green: black is sent
C11_Witness ==
    /\ LastSetColor
    /\ fcall.args.name = "nosuchcolor"
    /\ fcall.args.hex = "#0000ff"
    /\ fcall.args.green = 9
    /\ ~inverse
    /\ fcall.sent[1].data = <<0, 0, 0, 0>>
    /\ fcall.outcome = "return"

----------------------------------------------------------------------------
(* BlinkStick: inverse mode *)

\* the payload the last set_color would have had on a stick whose inverse
\* mode was never touched, with the same arguments and the same max-rgb value
FreshPayload ==
    color_report(fcall.channel, fcall.index,
                 determine_rgb(fcall.args.red, fcall.args.green, fcall.args.blue,
                               fcall.args.name, fcall.args.hex, fcall.rnd, max_rgb_value),
                 FALSE).control_string

\* C12: after set_inverse(true) followed by set_inverse(false), set_color sends
\* the very bytes it sends on a fresh stick, for every colour and max-rgb
\* value; while inverse mode is on every colour byte sent is 255 minus the
\* byte sent with inverse mode off, the rest of the payload being the same.
C12_InverseRoundTrip ==
    LastSetColor =>
        LET data == fcall.sent[1].data
            n == Len(data)
        IN /\ inverse_hist.asked \in {"never", "off"} => data = FreshPayload
           /\ inverse_hist.asked = "on" =>
                  /\ n = Len(FreshPayload)
                  /\ \A i \in 1..n :
                         data[i] = IF i > n - 3 THEN 255 - FreshPayload[i] ELSE FreshPayload[i]

\* inverse mode was turned on and off again before this set_color
C12_Witness ==
    /\ LastSetColor
    /\ inverse_hist = [asked |-> "off", was_on |-> TRUE]
    /\ max_rgb_value = 100
    /\ fcall.args.red = 255 /\ fcall.args.green = 128 /\ fcall.args.blue = 1
    /\ fcall.sent[1].data = <<5, 2, 63, 100, 50, 0>>

----------------------------------------------------------------------------
(* BlinkStick: the max-rgb value *)

\* C13: whatever integers set_max_rgb_value was called with, the stored value
\* and what get_max_rgb_value returns lie in 0..255: a negative argument
\* stores 0, one above 255 stores 255, one in range is stored unchanged.
C13_MaxRgbClamp ==
    /\ max_rgb_value \in 0..255
    /\ fcall.op = "get_max_rgb_value" => fcall.ret = max_rgb_value
    /\ fcall.op = "set_max_rgb_value" =>
          max_rgb_value = (IF fcall.value < 0 THEN 0
                           ELSE IF fcall.value > 255 THEN 255
                           ELSE fcall.value)

\* a negative argument was given and 0 is stored
C13_Witness ==
    /\ fcall.op = "set_max_rgb_value"
    /\ fcall.value = -5
    /\ max_rgb_value = 0

----------------------------------------------------------------------------
(* BlinkStick: info block round trip *)

\* the first n characters of s
Prefix(s, n) == SubSeq(s, 1, Min(Len(s), n))

\* the characters are 7-bit codes
IsAscii(s) == \A i \in 1..Len(s) : s[i] \in 0..127

LastGetInfoBlock == fcall.op = "get_info_block" /\ fcall.outcome = "return"

----------------------------------------------------------------------------
(* BlinkStick: blink *)

\* the payload of a set_color of colour `a` to the LED of the last operation
PayloadOf(a) ==
    color_report(fcall.channel, fcall.index,
                 determine_rgb(a.red, a.green, a.blue, a.name, a.hex, <<0, 0, 0>>, max_rgb_value),
                 inverse)

\* event i of the last operation is the set_color command of colour `a`
IsCommand(i, a) ==
    /\ fcall.trace[i].kind = "set_color"
    /\ fcall.trace[i].transfer =
           Transfer(REQ_WRITE, 9, PayloadOf(a).report_id, 0, PayloadOf(a).control_string)

\* the set_color commands among the events of the last operation
Commands == {i \in 1..Len(fcall.trace) : fcall.trace[i].kind = "set_color"}
Delays == {i \in 1..Len(fcall.trace) : fcall.trace[i].kind = "sleep"}

\* C16: a blink with repeats = n >= 1 that runs to its end issues exactly 2n
\* set-colour commands to (channel, index), the requested colour and black in
\* turn, black last, and exactly 2n - 1 delays, one after each command but the
\* last; with n = 0 nothing is sent.
C16_BlinkSequence ==
    (fcall.op = "blink" /\ fcall.outcome = "return") =>
        LET n == fcall.repeats IN
        /\ Cardinality(Commands) = 2 * n
        /\ Cardinality(Delays) = IF n = 0 THEN 0 ELSE 2 * n - 1
        /\ Len(fcall.trace) = IF n = 0 THEN 0 ELSE 4 * n - 1
        /\ \A i \in 1..Len(fcall.trace) :
              IF i % 2 = 0 THEN fcall.trace[i] = SleepEvent(fcall.delay)
              ELSE IF i % 4 = 1 THEN IsCommand(i, fcall.args)
              ELSE IsCommand(i, NoColor)

\* two repeats: colour, delay, black, delay, colour, delay, black
C16_Witness ==
    /\ fcall.op = "blink"
    /\ fcall.outcome = "return"
    /\ fcall.repeats = 2
    /\ Len(fcall.trace) = 7
    /\ fcall.args.red = 255
    /\ ~inverse
    /\ fcall.trace[5].transfer.data = <<5, 1, 2, 255, 128, 1>>
    /\ fcall.trace[7].transfer.data = <<5, 1, 2, 0, 0, 0>>

----------------------------------------------------------------------------
(* BlinkStick: morph *)

\* the transport let the read and every write of the last morph through
UndisturbedMorph == fcall.op = "morph" /\ fcall.read # "raise" /\ fcall.at = 0

\* C15: for every start colour, target colour, step count >= 0 and max-rgb
\* value, morph issues exactly steps + 2 set-colour commands (the start, the
\* interpolated colours, the target), and the last of them carries the bytes a
\* direct set_color of the target would send.
C15_MorphEndpoint ==
    UndisturbedMorph =>
        /\ Cardinality(Commands) = fcall.steps + 2
        /\ Len(fcall.trace) > 0
        /\ IsCommand(Len(fcall.trace), fcall.args)

----------------------------------------------------------------------------
(* BlinkStick: get_color *)

LastGetColor == fcall.op = "get_color"

\* C17: get_color returns an RGB tuple by default; a color_format string that
\* is given overrides color_mode, 'hex' selecting the hex getter; a
\* color_format that names no format raises nothing and falls back to the RGB
\* getter; in every case get_color invokes exactly one getter, exactly once.
C17_GetColorDispatch ==
    LastGetColor =>
        /\ Len(fcall.called) = 1
        /\ fcall.called[1] \in {"_get_color_rgb", "_get_color_hex"}
        /\ fcall.color_format \in {None, ""} =>
              fcall.called[1] = (IF fcall.color_mode = "HEX" THEN "_get_color_hex" ELSE "_get_color_rgb")
        /\ fcall.color_format = "hex" => fcall.called[1] = "_get_color_hex"
        /\ fcall.color_format = "rgb" => fcall.called[1] = "_get_color_rgb"
        /\ fcall.color_format = "invalid_format" =>
              /\ fcall.called[1] = "_get_color_rgb"
              /\ fcall.outcome = "raise" => fcall.exc \in {Raw(USBError), Raw(HIDError),
                                                         CouldNotCommunicate(serial), CouldNotDetach}
        /\ fcall.outcome = "return" =>
              fcall.ret.type = (IF fcall.called[1] = "_get_color_hex" THEN "str" ELSE "tuple")

\* color_mode HEX next to a color_format that names no format: the RGB getter
C17_Witness ==
    /\ LastGetColor
    /\ fcall.color_mode = "HEX"
    /\ fcall.color_format = "invalid_format"
    /\ fcall.called = <<"_get_color_rgb">>
    /\ fcall.outcome = "return"
    /\ fcall.ret = TupleValue(<<90, 200, 7>>)

----------------------------------------------------------------------------
(* BlinkStickProMatrix: shifts and addressing *)

Coords == (0..(cols - 1)) \X (0..(rows - 1))
Pixel(data, x, y) == matrix_get_color(data, x, y)
AllBlack == \A c \in Coords : Pixel(matrix_data, c[1], c[2]) = Black

\* C18: from any buffer, shift_left(remove=true) applied cols times leaves
\* every pixel black, and so do shift_right applied cols times and shift_up /
\* shift_down applied rows times; the buffer keeps its rows * cols entries.
C18_ShiftOutToBlack ==
    /\ Len(matrix_data) = rows * cols
    /\ (mcall.remove /\ mcall.op \in {"shift_left", "shift_right"} /\ mcall.run >= cols) => AllBlack
    /\ (mcall.remove /\ mcall.op \in {"shift_up", "shift_down"} /\ mcall.run >= rows) => AllBlack

\* three columns, lit in the column that leaves last, shifted out to the left
C18_Witness ==
    /\ cols = 3 /\ rows = 2
    /\ mcall.op = "shift_left" /\ mcall.remove /\ mcall.run = 3
    /\ Pixel(mcall.origin, 2, 1) = <<255, 128, 1>>
    /\ AllBlack

\* C19: a shift with remove=false is a rotation: after shift_left pixel (x, y)
\* holds what was at ((x + 1) mod cols, y), and so on for the other three; no
\* colour is lost or altered; shift_left then shift_right gives the buffer
\* back, and so do cols shift_left or rows shift_up in a row. With (dx, dy)
\* the sum of the wrap-around shifts made since `origin`, the buffer is
\* `origin` rotated by (dx, dy).
C19_WrapShiftIsRotation ==
    (mcall.op \in ShiftOps /\ ~mcall.remove) =>
        /\ Len(matrix_data) = Len(mcall.origin)
        /\ \A c \in Coords :
              Pixel(matrix_data, c[1], c[2]) =
                  Pixel(mcall.origin, (c[1] + mcall.dx) % cols, (c[2] + mcall.dy) % rows)
        /\ (mcall.dx = 0 /\ mcall.dy = 0) => matrix_data = mcall.origin

\* shift_left, shift_left, then shift_right on three columns: one column to the left
C19_Witness ==
    /\ cols = 3 /\ rows = 2
    /\ mcall.op = "shift_right" /\ ~mcall.remove /\ mcall.run = 1
    /\ mcall.dx = 1 /\ mcall.dy = 0
    /\ Pixel(mcall.origin, 1, 0) = <<100, 50, 0>>
    /\ Pixel(mcall.origin, 0, 0) = Black
    /\ Pixel(matrix_data, 0, 0) = <<100, 50, 0>>

\* C20: (x, y) -> y * cols + x maps the in-bounds coordinates one-to-one onto
\* 0 .. rows * cols - 1; after set_color(x, y, ...) get_color(x, y) returns
\* the colour stored and every other in-bounds pixel is as it was.
C20_CoordinateBijection ==
    /\ \A c \in Coords, d \in Coords :
          coord_to_index(c[1], c[2]) = coord_to_index(d[1], d[2]) => c = d
    /\ {coord_to_index(c[1], c[2]) : c \in Coords} = 0..(rows * cols - 1)
    /\ mcall.op = "set_color" =>
          /\ Pixel(matrix_data, mcall.x, mcall.y) =
                 (IF mcall.remap_values THEN remap_rgb_value(mcall.rgb, matrix_max_rgb_value)
                  ELSE mcall.rgb)
          /\ \A c \in Coords :
                c # <<mcall.x, mcall.y>> =>
                    Pixel(matrix_data, c[1], c[2]) = Pixel(mcall.origin, c[1], c[2])

\* the last pixel of a 3 x 2 matrix set next to a lit neighbour
C20_Witness ==
    /\ cols = 3 /\ rows = 2
    /\ mcall.op = "set_color"
    /\ mcall.x = 2 /\ mcall.y = 1
    /\ matrix_max_rgb_value = 100
    /\ Pixel(matrix_data, 2, 1) = <<100, 50, 0>>
    /\ Pixel(mcall.origin, 2, 1) = Black
    /\ Pixel(matrix_data, 1, 1) = <<100, 50, 0>>
    /\ matrix_data[6] = <<50, 100, 0>>

----------------------------------------------------------------------------
(* BlinkStickProMatrix: line *)

Stored(rgb) == remap_rgb_value(rgb, matrix_max_rgb_value)
PointSet(points) == {points[i] : i \in 1..Len(points)}

\* C21: for every in-bounds point (x1, y1), line(x1, y1, x1, y1, ...) sets
\* exactly one pixel, (x1, y1), to the colour given (as set_color stores it),
\* returns the one-element list [(x1, y1)], and leaves every other pixel as
\* it was.
C21_DegenerateLine ==
    (mcall.op = "line" /\ mcall.x = mcall.x2 /\ mcall.y = mcall.y2) =>
        /\ mcall.points = << <<mcall.x, mcall.y>> >>
        /\ Pixel(matrix_data, mcall.x, mcall.y) = Stored(mcall.rgb)
        /\ \A c \in Coords :
              c # <<mcall.x, mcall.y>> =>
                  Pixel(matrix_data, c[1], c[2]) = Pixel(mcall.origin, c[1], c[2])

\* a one-point line next to a pixel set before
C21_Witness ==
    /\ cols = 3 /\ rows = 2
    /\ mcall.op = "line"
    /\ mcall.x = 1 /\ mcall.y = 1 /\ mcall.x2 = 1 /\ mcall.y2 = 1
    /\ mcall.rgb = <<255, 128, 1>>
    /\ matrix_max_rgb_value = 255
    /\ mcall.points = << <<1, 1>> >>
    /\ Pixel(mcall.origin, 2, 1) = <<9, 9, 9>>
    /\ Pixel(matrix_data, 2, 1) = <<9, 9, 9>>
    /\ Pixel(matrix_data, 1, 1) = <<255, 128, 1>>

\* C27: for in-bounds ends, line(x1, y1, x2, y2, ...) returns
\* max(|x2 - x1|, |y2 - y1|) + 1 distinct points, the first (x1, y1), the last
\* (x2, y2), consecutive ones differing by at most 1 in each coordinate; the
\* pixels it colours are exactly the points returned; and
\* line(x2, y2, x1, y1, ...) returns the same points in reverse order.
C27_LinePointOrder ==
    mcall.op = "line" =>
        LET p == mcall.points
            n == Max(Abs(mcall.x2 - mcall.x), Abs(mcall.y2 - mcall.y)) + 1
        IN /\ Len(p) = n
           /\ \A i \in 1..n, j \in 1..n : p[i] = p[j] => i = j
           /\ p[1] = <<mcall.x, mcall.y>>
           /\ p[n] = <<mcall.x2, mcall.y2>>
           /\ \A i \in 1..(n - 1) :
                 /\ Abs(p[i + 1][1] - p[i][1]) <= 1
                 /\ Abs(p[i + 1][2] - p[i][2]) <= 1
           /\ \A c \in Coords :
                 Pixel(matrix_data, c[1], c[2]) =
                     (IF c \in PointSet(p) THEN Stored(mcall.rgb)
                      ELSE Pixel(mcall.origin, c[1], c[2]))
           /\ line(mcall.origin, mcall.x2, mcall.y2, mcall.x, mcall.y, mcall.rgb).points = Reverse(p)

\* a shallow line drawn from its right end, over a pixel set before
C27_Witness ==
    /\ cols = 4 /\ rows = 3
    /\ mcall.op = "line"
    /\ mcall.x = 3 /\ mcall.y = 0 /\ mcall.x2 = 0 /\ mcall.y2 = 2
    /\ mcall.rgb = <<255, 128, 1>>
    /\ matrix_max_rgb_value = 100
    /\ Len(mcall.points) = 4
    /\ mcall.points[1] = <<3, 0>>
    /\ mcall.points[4] = <<0, 2>>
    /\ Pixel(mcall.origin, 0, 0) = <<4, 4, 4>>
    /\ Pixel(matrix_data, 0, 0) = <<4, 4, 4>>
    /\ Pixel(matrix_data, 0, 2) = <<100, 50, 0>>

----------------------------------------------------------------------------
(* BlinkStickProMatrix: coordinates outside the matrix *)

\* C26: for every (x, y) that violates 0 <= x < cols or 0 <= y < rows,
\* set_color and get_color fail with an out-of-range access and leave the
\* buffer as it was; no such coordinate reads or overwrites the pixel of an
\* in-bounds coordinate.
C26_OutOfBoundsFails ==
    (mcall.op \in {"set_color", "get_color"} /\ <<mcall.x, mcall.y>> \notin Coords) =>
        /\ mcall.outcome = "IndexError"
        /\ matrix_data = mcall.origin

----------------------------------------------------------------------------
(* BlinkStickPro and BlinkStickProMatrix: channel buffers and frame sends *)

\* C22: after any sequence of set_color, clear, off, send_data and
\* send_data_all calls, on a BlinkStickPro or on a BlinkStickProMatrix whose
\* channels have different row counts, each channel buffer has the length
\* fixed at construction: r_led_count, g_led_count, b_led_count.
C22_ChannelLengthFixed ==
    \A ch \in 1..3 : Len(pro_data[ch]) = pro_led_count[ch]

SentChannels == [i \in 1..Len(mcall.sends) |-> mcall.sends[i].channel]
LitChannels == SelectSeq(<<0, 1, 2>>, LAMBDA ch : pro_led_count[ch + 1] > 0)

\* C23: send_data_all attempts one frame send for each channel of nonzero
\* length, in the order R, G, B, and none for a channel of length zero; a
\* failure while sending one channel does not reach the caller and does not
\* keep the later channels from being attempted; without a bstick nothing
\* is sent and nothing is raised.
C23_FireAndForget ==
    mcall.op = "send_data_all" =>
        /\ mcall.outcome = "return"
        /\ SentChannels = (IF bstick = None THEN <<>> ELSE LitChannels)

\* three channels, the send of the first one fails and raises in the backend
C23_Witness ==
    /\ mcall.op = "send_data_all"
    /\ bstick # None
    /\ platform = "unix"
    /\ pro_led_count = <<1, 1, 1>>
    /\ Len(mcall.sends) = 3
    /\ mcall.sends[1].failed
    /\ ~mcall.sends[2].failed
    /\ SentChannels = <<0, 1, 2>>
    /\ mcall.outcome = "return"

\* the pixels of a channel, row by row, each as its stored (g, r, b) bytes
ChannelPixels(buffer, channel) ==
    LET w == end_col(channel) - start_col(channel)
    IN Flatten([i \in 1..(rows * w) |->
                   LET c == Pixel(buffer, start_col(channel) + ((i - 1) % w), (i - 1) \div w)
                   IN <<c[2], c[1], c[3]>>])

\* C24: the column ranges [0, r_columns), [r_columns, r_columns + g_columns)
\* and [r_columns + g_columns, cols) of the channels partition [0, cols);
\* send_data(channel) hands the stick, in row-major order over all rows of
\* the matrix, exactly the pixels (x, y) with x in the channel's range, each
\* as its stored (g, r, b) bytes; every pixel is in exactly one channel's
\* frame and the matrix buffer is left as it was.
C24_MatrixSlicing ==
    IsMatrix =>
        /\ start_col(0) = 0 /\ end_col(0) = start_col(1)
        /\ end_col(1) = start_col(2) /\ end_col(2) = cols
        /\ \A x \in 0..(cols - 1) :
              Cardinality({ch \in Channels : start_col(ch) <= x /\ x < end_col(ch)}) = 1
        /\ (mcall.op = "send_data" /\ bstick # None) =>
              /\ Len(mcall.sends) = 1
              /\ mcall.sends[1].channel = mcall.channel
              /\ mcall.sends[1].packet_data = ChannelPixels(mcall.origin, mcall.channel)
              /\ SubSeq(mcall.sends[1].transfer.data, 3, 2 + Len(mcall.sends[1].packet_data))
                     = mcall.sends[1].packet_data
              /\ mcall.sends[1].transfer.data[2] = mcall.channel
              /\ matrix_data = mcall.origin

\* channel G of a matrix of two rows, its lower pixel lit
C24_Witness ==
    /\ IsMatrix /\ rows = 2 /\ columns = <<1, 1, 0>>
    /\ bstick # None
    /\ mcall.op = "send_data" /\ mcall.channel = 1
    /\ Pixel(matrix_data, 1, 1) = <<255, 128, 1>>
    /\ Pixel(matrix_data, 0, 1) = <<255, 128, 1>>
    /\ Pixel(matrix_data, 1, 0) = Black
    /\ mcall.sends[1].packet_data = <<0, 0, 0, 128, 255, 1>>

----------------------------------------------------------------------------
(* BlinkStick: get_mode and get_led_count *)

\* C25: get_mode and get_led_count return byte 1 of the stick's response when
\* it has at least 2 bytes, and return -1 without raising when it has fewer;
\* neither changes the facade's state.
C25_ShortResponseSentinel ==
    fcall.op \in {"get_mode", "get_led_count"} =>
        /\ FacadeState = fcall.before
        /\ fcall.outcome = "return" =>
              fcall.ret = (IF Len(fcall.device_bytes) >= 2 THEN fcall.device_bytes[2] ELSE -1)

\* a one-byte answer to get_led_count, in inverse mode
C25_Witness ==
    /\ fcall.op = "get_led_count"
    /\ fcall.outcome = "return"
    /\ fcall.device_bytes = <<4>>
    /\ fcall.ret = -1
    /\ inverse
    /\ fcall.sent[1].wValue = 129

----------------------------------------------------------------------------
(* BlinkStick: colours read back *)

\* C28: with inverse mode on and max_rgb_value 255, for every LED index (0
\* and greater than 0), a colour written with set_color to a stick that keeps
\* the bytes it receives is returned unchanged by get_color for that index.
C28_InverseSymmetric ==
    ( /\ fcall.op = "get_color"
      /\ fcall.outcome = "return"
      /\ inverse
      /\ max_rgb_value = 255
      /\ fcall.index \in DOMAIN led_mem
      /\ led_mem[fcall.index].inverse ) =>
        fcall.ret = TupleValue(led_mem[fcall.index].written)

\* the report and the number of LEDs in it, for the LED data read of an index
ReportOfIndex(i) ==
    IF i <= 7 THEN <<6, 8>> ELSE IF i <= 15 THEN <<7, 16>> ELSE IF i <= 31 THEN <<8, 32>> ELSE <<9, 64>>
LedsOfReport(report_id) ==
    IF report_id = 6 THEN 8 ELSE IF report_id = 7 THEN 16 ELSE IF report_id = 8 THEN 32 ELSE 64

\* C30: for every LED index from 1 to 63, the indexed colour read requests an
\* LED data frame, report id and length from the report table, whose
\* returned slice contains the three bytes at offsets index * 3, index * 3 + 1
\* and index * 3 + 2, and returns them converted from wire order (g, r, b) to
\* (r, g, b); get_led_data(count) never returns more than max_leds * 3 bytes
\* of the report it selected.
C30_IndexedReadInRange ==
    /\ (fcall.op = "_get_color_rgb" /\ fcall.index \in 1..63 /\ fcall.outcome # "raise") =>
          LET i == fcall.index
          IN /\ fcall.sent = <<Transfer(REQ_READ, 1, ReportOfIndex(i)[1], 0, ReportOfIndex(i)[2] * 3 + 2)>>
             /\ Len(fcall.data) >= i * 3 + 3
             /\ \A k \in 1..3 : fcall.data[i * 3 + k] = fcall.device_bytes[2 + i * 3 + k]
             /\ fcall.outcome = "return"
             /\ fcall.ret = <<fcall.data[i * 3 + 2], fcall.data[i * 3 + 1], fcall.data[i * 3 + 3]>>
             /\ fcall.ret = StickLed(i)
    /\ (fcall.op \in {"get_led_data", "_get_color_rgb"} /\ fcall.outcome # "raise") =>
          Len(fcall.data) <= LedsOfReport(fcall.sent[1].wValue) * 3

\* the last LED of the largest report, read after it was written
C30_Witness ==
    /\ fcall.op = "_get_color_rgb"
    /\ fcall.index = 63
    /\ fcall.outcome = "return"
    /\ 63 \in DOMAIN led_mem
    /\ ~led_mem[63].inverse
    /\ Len(fcall.device_bytes) = 194
    /\ Len(fcall.data) = 192
    /\ fcall.data[190] = 128 /\ fcall.data[191] = 255 /\ fcall.data[192] = 1
    /\ fcall.ret = <<255, 128, 1>>

----------------------------------------------------------------------------
(* Device handle: the cached serial across reconnects *)

\* the devices find_by_serial accepts: on Unix those whose serial descriptor
\* reads equal to the cached serial, on Win32 those present with that serial
Candidates ==
    {d \in Devs : /\ bus[d].serial = serial
                  /\ IF platform = "unix" THEN bus[d].status = "readable"
                     ELSE bus[d].status # "absent"}
FirstOf(S) == IF S = {} THEN NoDevice ELSE CHOOSE d \in S : \A c \in S : d <= c

C29_SerialIdentityStep ==
    /\ hstate = "ready" => (serial' = serial /\ serial' = serial0')
    /\ (call' # call /\ call'.enums >= 1) =>
          /\ call'.found = FirstOf(Candidates)
          /\ call'.found # NoDevice =>
                /\ device' = call'.found
                /\ bus'[device'].serial = serial'

\* C29: the serial cached at construction is not changed by any later
\* transfer, string read, failure or reconnect; after every reconnect that
\* found a device, the handle is bound to a device whose serial descriptor
\* equals the cached serial; a device whose descriptor cannot be read during
\* the enumeration is skipped, and the search goes on to the next one.
C29_SerialIdentity == [][C29_SerialIdentityStep]_vars

\* the stick came back as device object 2, behind one that cannot be read
C29_Witness ==
    /\ platform = "unix"
    /\ hstate = "ready"
    /\ call.op = "control_transfer"
    /\ call.devBefore = 1
    /\ call.enums = 1
    /\ call.found = 2
    /\ call.outcome = "return"
    /\ device = 2
    /\ bus[1].status = "unreadable"
    /\ bus[2].serial = "BS1"
    /\ serial = "BS1" /\ serial0 = "BS1"

====
